---- MODULE Spec2Model ----
(***************************************************************************)
(* A model of apps/add-current/server.js (the media-actions API of         *)
(* spainify): the add flow with its two de-duplication tiers and the       *)
(* coalesced playlist-cache refresh, the zone arbitrator, the paginated    *)
(* playlist scan, the retry-on-401 wrappers and the grouping route.        *)
(*                                                                         *)
(* Node runs the handlers on one event loop: the code between two awaits   *)
(* of an upstream call runs without interleaving, so every action below    *)
(* is one such stretch, from the arrival of a response (or of a request)   *)
(* to the next upstream call the handler waits on.                         *)
(***************************************************************************)
EXTENDS Integers, Sequences, FiniteSets, TLC

(* ------------------------------ bounds --------------------------------- *)

\* The environment's steps, MaxEnvSteps at most: the clock advancing by TickMs,
\* and another client changing the destination playlist.
TickMs == 300000
MaxEnvSteps == 2
MaxZones == 2
ScanMaxTotal == 102
MaxCalls == 2
MaxRooms == 3
MaxCallTicks == 2
CallTickMs == 1785000
MaxRecentTicks == 4

TrackIds == {"X", "Y"}
Requests == {"r1", "r2"}

(* ------------------------- program constants --------------------------- *)

RECENT_TTL_MS == 600000
PLAYLIST_CACHE_TTL_MS == 604800000
PAGE_LIMIT == 100
DEFAULT_DE_DUPE_WINDOW == 250
ACCESS_TOKEN_SKEW_MS == 30000
DEFAULT_EXPIRES_IN_SEC == 3600
DEFAULT_RETRIES == 3
TRACK_LOOKUP_RETRIES == 2
BACKOFF_BASE_MS == 200

\* getDedupeWindow() returns null for "scan the entire playlist": written 0
\* here (the code never yields the number 0: "0" maps to null, n < 1 to 250).
WindowAll == 0

\* The window the add flow runs with: "the last N items", as by default. The
\* scan is run against WindowAll and larger windows in ScanWindows.
Windows == {1}

NoJob == "none"
NoTrack == "none"
NoMarker == 0

Max(a, b) == IF a >= b THEN a ELSE b
Min(a, b) == IF a <= b THEN a ELSE b
Range(s) == {s[i] : i \in DOMAIN s}

(* ------------------------------ state ---------------------------------- *)

VARIABLES
  now,                          \* Date.now()
  recentAdds,                   \* trackId -> timestamp, 0 when absent
  playlistCache,                \* ids, snapshotId, total, scopeKey, updatedAt
  playlistCacheRefreshPromise,  \* the refresh in flight (its owner), or NoJob
  dedupeWindow,                 \* getDedupeWindow(): fixed by the environment
  playlist,                     \* upstream: the destination playlist's items
  snapshot,                     \* upstream: the playlist's change marker
  envSteps,                     \* steps the environment has taken so far
  req,                          \* per request: the handler's position and locals
  job                           \* per request: the refresh body it started

\* The zone arbitrator, applied to one topology snapshot.
VARIABLES
  zones,          \* the snapshot, in the order the gateway lists it
  preferredRoom,  \* pickActiveZone's preferredRoom
  mode,           \* pickActiveZone's mode
  selected,       \* what pickActiveZone returned for zones as they are now
  selections      \* history: everything it returned for this snapshot

addVars == <<now, recentAdds, playlistCache, playlistCacheRefreshPromise,
             dedupeWindow, playlist, snapshot, envSteps, req, job>>

zoneVars == <<zones, preferredRoom, mode, selected, selections>>

\* One playlist scan against a declared total.
VARIABLES
  scan            \* its kind, inputs, position and the page request in flight

scanVars == <<scan>>

\* The credential manager and one account-API call under its 401 handling.
VARIABLES
  cachedAccessToken,           \* 0 for "", else the exchange that issued it
  cachedAccessTokenExpiresAt,
  exchanges,                   \* token exchanges answered so far
  callNow,                     \* Date.now() as the call's steps see it
  calls,                       \* calls started so far
  call                         \* the call's locals and its history

callVars == <<cachedAccessToken, cachedAccessTokenExpiresAt, exchanges, callNow,
              calls, call>>

\* One /group request; the topology it fetches is zones, its preferred room
\* and mode are preferredRoom and mode.
VARIABLES
  grp             \* the request's inputs, locals, calls so far and response

groupVars == <<grp>>

\* The recent-add cache called directly: its history.
VARIABLES
  recentLog       \* when each id was last remembered, the last check, the ticks

recentVars == <<recentLog>>

\* One /add-current-smart request of a process started with a given
\* configuration, from a cold start.
VARIABLES
  cfgRun          \* the configuration, the handler's position, its calls and response

configVars == <<cfgRun>>

\* What the add flow never touches.
notAddVars == <<zoneVars, scanVars, callVars, groupVars, recentVars, configVars>>

\* What the zone arbitrator never touches.
notZoneVars == <<addVars, scanVars, callVars, groupVars, recentVars, configVars>>

\* What a lone scan never touches.
notScanVars == <<addVars, zoneVars, callVars, groupVars, recentVars, configVars>>

\* What a lone account-API call never touches.
notCallVars == <<addVars, zoneVars, scanVars, groupVars, recentVars, configVars>>

\* What a group request never touches.
notGroupVars == <<addVars, zoneVars, scanVars, callVars, recentVars, configVars>>

vars == <<addVars, zoneVars, scanVars, callVars, groupVars, recentVars, configVars>>

(* ---------------------- recent-add cache (36-59) ----------------------- *)

\* pruneRecentAdds(now): drops every entry older than the cutoff.
pruneRecentAdds(ra, t) ==
  [x \in TrackIds |-> IF ra[x] # 0 /\ ra[x] < t - RECENT_TTL_MS THEN 0 ELSE ra[x]]

\* A recent-add check whose window is 10 * 60, not 10 * 60 * 1000.
seenRecentlyTtlInSeconds(ra, x, t) ==
  IF ra[x] = 0 THEN FALSE
  ELSE IF t - ra[x] >= 600 THEN FALSE
  ELSE TRUE

\* A recent-add check that still reports an entry exactly RECENT_TTL_MS old.
seenRecentlyInclusive(ra, x, t) ==
  IF ra[x] = 0 THEN FALSE
  ELSE IF t - ra[x] > RECENT_TTL_MS THEN FALSE
  ELSE TRUE

\* seenRecently(trackId): the answer.
seenRecently(ra, x, t) ==
  IF ra[x] = 0 THEN FALSE
  ELSE IF t - ra[x] >= RECENT_TTL_MS THEN FALSE
  ELSE TRUE

\* seenRecently(trackId): the cache it leaves (a stale entry is deleted).
seenRecentlyEffect(ra, x, t) ==
  IF ra[x] # 0 /\ t - ra[x] >= RECENT_TTL_MS THEN [ra EXCEPT ![x] = 0] ELSE ra

\* rememberAdd(trackId)
rememberAdd(ra, x, t) == [pruneRecentAdds(ra, t) EXCEPT ![x] = t]

\* The cache's functions called in any order at any time, with the clock
\* advancing between calls by a millisecond or by a millisecond less than the TTL.
NoCheck == [id |-> NoTrack, at |-> 0, answer |-> FALSE]
IdleLog == [last |-> [x \in TrackIds |-> 0], check |-> NoCheck, ticks |-> 0]
RecentIdle == recentLog = IdleLog
RecentTicks == {1, RECENT_TTL_MS - 1}

notRecentAdds == <<playlistCache, playlistCacheRefreshPromise, dedupeWindow,
                   playlist, snapshot, envSteps, req, job,
                   zoneVars, scanVars, callVars, groupVars, configVars>>

\* rememberAdd(trackId) (55-59)
RecentRemember ==
  /\ \E x \in TrackIds :
       /\ recentAdds' = rememberAdd(recentAdds, x, now)
       /\ recentLog' = [recentLog EXCEPT !.last[x] = now, !.check = NoCheck]
  /\ UNCHANGED <<now, notRecentAdds>>

\* seenRecently(trackId) (46-54)
RecentCheck ==
  /\ recentLog.check = NoCheck
  /\ \E x \in TrackIds :
       /\ recentLog' = [recentLog EXCEPT !.check =
                         [id |-> x, at |-> now, answer |-> seenRecently(recentAdds, x, now)]]
       /\ recentAdds' = seenRecentlyEffect(recentAdds, x, now)
  /\ UNCHANGED <<now, notRecentAdds>>

\* Date.now() advances between two calls.
RecentTick ==
  /\ recentLog.ticks < MaxRecentTicks
  /\ \E d \in RecentTicks : now' = now + d
  /\ recentLog' = [recentLog EXCEPT !.ticks = @ + 1, !.check = NoCheck]
  /\ UNCHANGED <<recentAdds, notRecentAdds>>

(* -------------------- playlist cache (303-343) ------------------------- *)

\* "all", or `last:${windowSize}` (the empty tuple stands for "")
dedupeScopeKey(w) == IF w = WindowAll THEN <<"all">> ELSE <<"last", w>>

EmptyCache ==
  [ids |-> {}, snapshotId |-> NoMarker, total |-> 0, scopeKey |-> <<>>, updatedAt |-> 0]

isPlaylistCacheUsable(c, w, t) ==
  /\ c.updatedAt > 0
  /\ c.scopeKey = dedupeScopeKey(w)
  /\ t - c.updatedAt < PLAYLIST_CACHE_TTL_MS

\* A marking that counts the track whether or not the set already held it.
markPlaylistCacheAlwaysCounting(c, x, w, t) ==
  IF c.scopeKey # dedupeScopeKey(w) \/ c.updatedAt = 0 THEN c
  ELSE [c EXCEPT !.ids = @ \cup {x}, !.total = @ + 1, !.updatedAt = t]

markPlaylistCacheWithAddedTrack(c, x, w, t) ==
  IF c.scopeKey # dedupeScopeKey(w) \/ c.updatedAt = 0 THEN c
  ELSE [c EXCEPT !.ids = @ \cup {x},
                 !.total = IF x \in c.ids THEN @ ELSE @ + 1,
                 !.updatedAt = t]

(* ------------------------- upstream answers ---------------------------- *)

\* GET playlists/{id}?fields=snapshot_id,tracks(total), as fetchPlaylistMeta reads it.
fetchPlaylistMeta == [snapshotId |-> snapshot, total |-> Max(0, Len(playlist))]

\* GET playlists/{id}/tracks?limit=..&offset=..: the items of one page.
PageItems(offset, limit) ==
  SubSeq(playlist, offset + 1, Min(offset + limit, Len(playlist)))

(* ------------------------ the scan (354-374) --------------------------- *)

scanStartOffset(w, total) ==
  IF w = WindowAll THEN 0 ELSE Max(0, Max(0, total) - w)

\* A page limit that ignores what is left to scan.
pageLimitFixed(end, offset) == PAGE_LIMIT

pageLimit(end, offset) == Min(PAGE_LIMIT, end - offset)

\* playlistHasTrackDirect's own start offset (406).
directStartOffset(w, total) == IF w = WindowAll THEN 0 ELSE Max(0, total - w)

(* ------------------- a request's locals and history -------------------- *)

NoMeta == [snapshotId |-> NoMarker, total |-> 0]

\* caught: the call that started the refresh has a rejection handler attached
\* to it instead of being awaited (621). History: marked (the identities that
\* successful adds put into the cached set while this body's scan was under way).
IdleJob ==
  [stage |-> "idle", meta |-> NoMeta, offset |-> 0, ids |-> {}, caught |-> FALSE,
   marked |-> {}]

\* The body of the account's currently-playing answer (458-478).
PlaybackAnswer(status, playing, type, id) ==
  [status |-> status, is_playing |-> playing, currently_playing_type |-> type, id |-> id]

NoAnswer == PlaybackAnswer(0, FALSE, "", NoTrack)

\* The request's mode and the zone the arbitrator handed it (551, 555).
NoSeen == [mode |-> "", zone |-> [members |-> <<>>]]

\* source: the local of that name (544, 549), which the response carries;
\* responses: how many responses it has sent. History: playback (what the
\* account's playback query answered when it did not throw, kept until the
\* Sonos fallback returns) and seen (the mode and the zone the Sonos fallback
\* turned the request down on, kept for good).
\* pc: the upstream call the handler is waiting on; trackId, awaiting, dOffset,
\* dEnd: its locals; resp: its response. History, kept while the handler runs:
\* log (the steps of the flow it has taken), reval (what its revalidation saw),
\* answer (where its membership check answered from). History, kept for good:
\* addCalls (add-item calls it issued), after (the requests that had responded
\* when it arrived), absent (its track was in neither tier when resolved),
\* rememberedAt (when its add was remembered).
IdleReq ==
  [pc |-> "idle", trackId |-> NoTrack, awaiting |-> NoJob, dOffset |-> 0, dEnd |-> 0,
   resp |-> "none", addCalls |-> 0, log |-> <<>>, after |-> {}, absent |-> FALSE,
   rememberedAt |-> 0, reval |-> "none", answer |-> "none",
   source |-> "", playback |-> NoAnswer, seen |-> NoSeen, responses |-> 0]

\* res.json(...) / res.status(500).json(...): the handler ends.
Respond(rq, what) ==
  [rq EXCEPT !.pc = "done", !.resp = what, !.responses = @ + 1,
             !.awaiting = NoJob, !.dOffset = 0, !.dEnd = 0,
             !.log = <<>>, !.reval = "none", !.answer = "none"]

Waits(r, j) == req[r].pc = "awaitRefresh" /\ req[r].awaiting = j

(* --------------- the add route after the check (604-617) --------------- *)

\* A membership check that ignores its answer.
ResumeCheckedIgnoringAnswer(rq, has) ==
  [rq EXCEPT !.pc = "add1", !.addCalls = @ + 1,
             !.log = Append(Append(@, IF has THEN "playlist:yes" ELSE "playlist:no"), "add"),
             !.awaiting = NoJob, !.dOffset = 0, !.dEnd = 0]

\* A handler that does not add while another request's add-item call for the
\* same identity is outstanding.
ResumeCheckedUnlessInFlight(rq, has) ==
  IF has \/ \E q \in Requests : req[q].pc \in {"add1", "add2"} /\ req[q].trackId = rq.trackId
  THEN Respond(rq, "already in playlist")
  ELSE [rq EXCEPT !.pc = "add1", !.addCalls = @ + 1,
                  !.log = Append(Append(@, "playlist:no"), "add"),
                  !.awaiting = NoJob, !.dOffset = 0, !.dEnd = 0]

\* if (await playlistHasTrack(id)) return res.json({added:false, reason:"already in
\* playlist"}); await addTrackToPlaylist(id): the add-item call is issued.
ResumeChecked(rq, has) ==
  IF has
  THEN Respond(rq, "already in playlist")
  ELSE [rq EXCEPT !.pc = "add1", !.addCalls = @ + 1,
                  !.log = Append(Append(@, "playlist:no"), "add"),
                  !.awaiting = NoJob, !.dOffset = 0, !.dEnd = 0]

\* The check answers from the set a refresh has just written (427, 443:
\* "refreshed"), from the cached set as it was (443: "cached"), or from the
\* direct scan (452: "direct").
Answered(rq, from) == [rq EXCEPT !.answer = from]

(* ------------------ refreshPlaylistCache (376-396) --------------------- *)

\* A refresh that never looks at the refresh in flight.
RefreshStartsNewAlways(promise) == TRUE

\* if (playlistCacheRefreshPromise) return playlistCacheRefreshPromise;
RefreshStartsNew(promise) == promise = NoJob

\* The cache a refresh writes when its scan has completed (383-387).
RefreshedCache(ids, meta, w, t) ==
  [ids |-> ids, snapshotId |-> meta.snapshotId, total |-> meta.total,
   scopeKey |-> dedupeScopeKey(w), updatedAt |-> t]

\* The refresh body once it has its meta: the scan's first page request, or
\* nothing to scan.
ScanningJob(meta, w) ==
  [stage |-> "scan", meta |-> meta, offset |-> scanStartOffset(w, meta.total), ids |-> {},
   caught |-> FALSE, marked |-> {}]

ScanIsEmpty(meta, w) == ~(scanStartOffset(w, meta.total) < Max(0, meta.total))

\* History: a refresh replaced the cached set while rq's check was under way.
SawReplacement(rq) == IF rq.reval = "changed" THEN [rq EXCEPT !.reval = "replaced"] ELSE rq

\* A refresh settles with success: the cache is replaced, the marker of the
\* refresh in flight is cleared (finally), and everyone awaiting it resumes at
\* "return playlistCache.ids.has(trackId)".
SettleOk(j, ids, meta) ==
  LET c == RefreshedCache(ids, meta, dedupeWindow, now) IN
  /\ playlistCache' = c
  /\ playlistCacheRefreshPromise' = NoJob
  /\ job' = [job EXCEPT ![j] = IdleJob]
  /\ req' = [r \in Requests |->
               IF Waits(r, j)
               THEN ResumeChecked(Answered(req[r], "refreshed"), req[r].trackId \in c.ids)
               ELSE SawReplacement(req[r])]

\* A failed refresh that fails the requests awaiting it.
SettleFailNoFallback(j) ==
  /\ playlistCacheRefreshPromise' = NoJob
  /\ job' = [job EXCEPT ![j] = IdleJob]
  /\ req' = [r \in Requests |-> IF Waits(r, j) THEN Respond(req[r], "error") ELSE req[r]]
  /\ UNCHANGED playlistCache

\* A refresh without the finally: a failure leaves the marker in place.
SettleFailLeavesMarker(j) ==
  /\ job' = [job EXCEPT ![j] = IdleJob]
  /\ req' = [r \in Requests |->
               IF Waits(r, j) THEN [req[r] EXCEPT !.pc = "directMeta", !.awaiting = NoJob]
               ELSE req[r]]
  /\ UNCHANGED <<playlistCache, playlistCacheRefreshPromise>>

\* A refresh body that assigns the cache's fields as it goes: a failure leaves
\* what it had read so far under the meta it had fetched.
SettleFailKeepsPartial(j) ==
  /\ playlistCacheRefreshPromise' = NoJob
  /\ job' = [job EXCEPT ![j] = IdleJob]
  /\ req' = [r \in Requests |->
               IF Waits(r, j) THEN [req[r] EXCEPT !.pc = "directMeta", !.awaiting = NoJob]
               ELSE req[r]]
  /\ playlistCache' = [playlistCache EXCEPT !.ids = job[j].ids,
                                            !.snapshotId = job[j].meta.snapshotId,
                                            !.total = job[j].meta.total]

\* A refresh settles with failure: the cache is untouched, the marker is cleared,
\* and everyone awaiting it is in playlistHasTrack's catch: the direct scan's
\* first call (402) is issued.
SettleFail(j) ==
  /\ playlistCacheRefreshPromise' = NoJob
  /\ job' = [job EXCEPT ![j] = IdleJob]
  /\ req' = [r \in Requests |->
               IF Waits(r, j) THEN [req[r] EXCEPT !.pc = "directMeta", !.awaiting = NoJob]
               ELSE req[r]]
  /\ UNCHANGED playlistCache

\* refreshPlaylistCache(windowSize) with no meta (426, 621): the marker and the
\* refresh body that calling it leaves, the caller being r.
RefreshCallPromise(r) ==
  IF RefreshStartsNew(playlistCacheRefreshPromise) THEN r ELSE playlistCacheRefreshPromise

\* A refresh call that starts its body whether or not one is in flight.
RefreshCallJobsAlways(r, started) == [job EXCEPT ![r] = started]

RefreshCallJobs(r, started) ==
  IF RefreshStartsNew(playlistCacheRefreshPromise) THEN [job EXCEPT ![r] = started] ELSE job

(* --------------------- the add route (540-634) ------------------------- *)

\* Requests are named in their order of arrival.
ArrivesBefore(r) == IF r = "r2" THEN {"r1"} ELSE {}

\* A request arrives; the handler awaits the account's playback query (543).
StartRequest(r) ==
  /\ req[r].pc = "idle"
  /\ \A q \in ArrivesBefore(r) : req[q].pc # "idle"
  /\ req' = [req EXCEPT ![r] = [@ EXCEPT !.pc = "resolve",
                                         !.after = {q \in Requests : req[q].pc = "done"}]]
  /\ UNCHANGED notAddVars
  /\ UNCHANGED <<now, recentAdds, playlistCache, playlistCacheRefreshPromise,
                 dedupeWindow, playlist, snapshot, envSteps, job>>

\* What the account's playback query can answer: nothing playing (204), a
\* playing track, a paused track, a playing episode, a playing item without an
\* id, and a failure.
PlaybackAnswers ==
  {PlaybackAnswer(204, FALSE, "", NoTrack)}
    \cup {PlaybackAnswer(200, TRUE, "track", x) : x \in TrackIds}
    \cup {PlaybackAnswer(200, FALSE, "track", "X"),
          PlaybackAnswer(200, TRUE, "episode", "X"),
          PlaybackAnswer(200, TRUE, "track", NoTrack),
          PlaybackAnswer(500, FALSE, "", NoTrack)}

\* r.ok
PlaybackOk(a) == a.status >= 200 /\ a.status <= 299

getSpotifyCurrentlyPlayingTrackNever(a) == NoTrack

\* getSpotifyCurrentlyPlayingTrack (463-477) for an answer that does not throw:
\* the playing track's id, or NoTrack for null.
getSpotifyCurrentlyPlayingTrack(a) ==
  IF a.status = 204 THEN NoTrack
  ELSE IF ~a.is_playing THEN NoTrack
  ELSE IF a.currently_playing_type # "track" THEN NoTrack
  ELSE a.id

\* The track is resolved (543-588) to x: the recent-add check (591), then
\* playlistHasTrackCached up to its first upstream call (425-431).
ResolvedTrack(r, x, src, a) ==
  LET seen == seenRecently(recentAdds, x, now)
      rq == [req[r] EXCEPT !.trackId = x, !.source = src, !.playback = a,
                           !.absent = (x \notin Range(playlist) /\ recentAdds[x] = 0),
                           !.log = <<IF seen THEN "recent:yes" ELSE "recent:no">>]
  IN
  /\ recentAdds' = seenRecentlyEffect(recentAdds, x, now)
  /\ IF seen
     THEN /\ req' = [req EXCEPT ![r] = Respond(rq, "already in playlist (recent)")]
          /\ UNCHANGED <<playlistCacheRefreshPromise, job>>
     ELSE IF ~isPlaylistCacheUsable(playlistCache, dedupeWindow, now)
     THEN /\ playlistCacheRefreshPromise' = RefreshCallPromise(r)
          /\ job' = RefreshCallJobs(r, [IdleJob EXCEPT !.stage = "meta"])
          /\ req' = [req EXCEPT ![r] = [rq EXCEPT !.pc = "awaitRefresh",
                                                  !.awaiting = RefreshCallPromise(r)]]
     ELSE /\ req' = [req EXCEPT ![r] = [rq EXCEPT !.pc = "revalidate"]]
          /\ UNCHANGED <<playlistCacheRefreshPromise, job>>
  /\ UNCHANGED notAddVars
  /\ UNCHANGED <<now, playlistCache, dedupeWindow, playlist, snapshot, envSteps>>

\* The handler answers without a track: nothing to add (557-580), or the
\* resolution failed (632). sn: what the Sonos fallback decided on, if it did.
ResolvedNone(r, what, sn) ==
  /\ req' = [req EXCEPT ![r] = [Respond(@, what) EXCEPT !.seen = sn,
                                                        !.playback = NoAnswer]]
  /\ UNCHANGED notAddVars
  /\ UNCHANGED <<now, recentAdds, playlistCache, playlistCacheRefreshPromise,
                 dedupeWindow, playlist, snapshot, envSteps, job>>

\* The account shows nothing (546-552): source becomes sonos and the handler
\* awaits getZones.
FallBackToSonos(r, a) ==
  /\ req' = [req EXCEPT ![r] = [@ EXCEPT !.pc = "zones", !.source = "sonos",
                                         !.playback = a]]
  /\ UNCHANGED notAddVars
  /\ UNCHANGED <<now, recentAdds, playlistCache, playlistCacheRefreshPromise,
                 dedupeWindow, playlist, snapshot, envSteps, job>>

\* The playback query returns (543-546).
ResolveDone(r) ==
  /\ req[r].pc = "resolve"
  /\ \E a \in PlaybackAnswers :
       IF a.status # 204 /\ ~PlaybackOk(a) THEN ResolvedNone(r, "error", NoSeen)
       ELSE IF getSpotifyCurrentlyPlayingTrack(a) # NoTrack
         THEN ResolvedTrack(r, getSpotifyCurrentlyPlayingTrack(a), "spotify", a)
         ELSE FallBackToSonos(r, a)

\* History: the fetched marker or total differs from the cached one.
MetaDiffers(meta, c) == meta.snapshotId # c.snapshotId \/ meta.total # c.total

\* A revalidation that takes every answer for a change.
MetaChangedAlways(meta, c) == TRUE

\* A revalidation that compares the totals only.
MetaChangedTotalOnly(meta, c) == meta.total # c.total

\* snapshotChanged || meta.total !== playlistCache.total (432-437)
MetaChanged(meta, c) ==
  \/ (meta.snapshotId # NoMarker /\ c.snapshotId # NoMarker /\ meta.snapshotId # c.snapshotId)
  \/ meta.total # c.total

\* The revalidation's meta arrives (431-443).
RevalidateOk(r) ==
  LET meta == fetchPlaylistMeta
      x == req[r].trackId
      rq == [req[r] EXCEPT !.reval = IF MetaDiffers(meta, playlistCache) THEN "changed" ELSE "same"]
  IN
  IF ~MetaChanged(meta, playlistCache)
  THEN /\ playlistCache' = [playlistCache EXCEPT !.updatedAt = now]
       /\ req' = [req EXCEPT ![r] = ResumeChecked(Answered(rq, "cached"), x \in playlistCache.ids)]
       /\ UNCHANGED <<playlistCacheRefreshPromise, job>>
  ELSE IF ~RefreshStartsNew(playlistCacheRefreshPromise)
  THEN /\ req' = [req EXCEPT ![r] = [rq EXCEPT !.pc = "awaitRefresh",
                                               !.awaiting = playlistCacheRefreshPromise]]
       /\ UNCHANGED <<playlistCache, playlistCacheRefreshPromise, job>>
  ELSE IF ScanIsEmpty(meta, dedupeWindow)
  THEN \* no page to fetch: the refresh completes in the same stretch
       /\ playlistCache' = RefreshedCache({}, meta, dedupeWindow, now)
            /\ playlistCacheRefreshPromise' = NoJob
       /\ req' = [q \in Requests |->
                    IF q = r THEN ResumeChecked(Answered(rq, "refreshed"), FALSE)
                    ELSE SawReplacement(req[q])]
       /\ UNCHANGED job
  ELSE /\ playlistCacheRefreshPromise' = r
       /\ job' = [job EXCEPT ![r] = ScanningJob(meta, dedupeWindow)]
       /\ req' = [req EXCEPT ![r] = [rq EXCEPT !.pc = "awaitRefresh", !.awaiting = r]]
       /\ UNCHANGED playlistCache

\* The revalidation's meta fetch fails: playlistHasTrack's catch (451-452).
RevalidateFail(r) ==
  /\ req' = [req EXCEPT ![r] = [@ EXCEPT !.pc = "directMeta"]]
  /\ UNCHANGED <<playlistCache, playlistCacheRefreshPromise, job>>

RevalidateDone(r) ==
  /\ req[r].pc = "revalidate"
  /\ (RevalidateOk(r) \/ RevalidateFail(r))
  /\ UNCHANGED notAddVars
  /\ UNCHANGED <<now, recentAdds, dedupeWindow, playlist, snapshot, envSteps>>

\* The refresh body's meta fetch (381) answers.
JobMetaDone(j) ==
  /\ job[j].stage = "meta"
  /\ \/ LET meta == fetchPlaylistMeta IN
        IF ScanIsEmpty(meta, dedupeWindow)
        THEN SettleOk(j, {}, meta)
        ELSE /\ job' = [job EXCEPT ![j] = [ScanningJob(meta, dedupeWindow)
                                             EXCEPT !.caught = job[j].caught]]
             /\ UNCHANGED <<playlistCache, playlistCacheRefreshPromise, req>>
     \/ SettleFail(j)
  /\ UNCHANGED notAddVars
  /\ UNCHANGED <<now, recentAdds, dedupeWindow, playlist, snapshot, envSteps>>

\* One page of the refresh body's scan (363-370) answers.
JobPageDone(j) ==
  /\ job[j].stage = "scan"
  /\ \/ LET end == Max(0, job[j].meta.total)
            items == PageItems(job[j].offset, pageLimit(end, job[j].offset))
            ids == job[j].ids \cup Range(items)
            got == Len(items)
        IN
        IF got = 0 \/ ~(job[j].offset + got < end)
        THEN SettleOk(j, ids, job[j].meta)
        ELSE /\ job' = [job EXCEPT ![j] = [@ EXCEPT !.offset = @ + got, !.ids = ids]]
             /\ UNCHANGED <<playlistCache, playlistCacheRefreshPromise, req>>
     \/ SettleFail(j)
  /\ UNCHANGED notAddVars
  /\ UNCHANGED <<now, recentAdds, dedupeWindow, playlist, snapshot, envSteps>>

\* A direct scan whose failed call for the total counts as "not in the playlist".
DirectMetaDoneFailOpen(r) ==
  /\ req[r].pc = "directMeta"
  /\ \/ LET total == Len(playlist)
            offset == directStartOffset(dedupeWindow, total)
        IN
        IF offset < total
        THEN req' = [req EXCEPT ![r] = [@ EXCEPT !.pc = "directScan", !.dOffset = offset,
                                                 !.dEnd = total]]
        ELSE req' = [req EXCEPT ![r] = ResumeChecked(Answered(@, "direct"), FALSE)]
     \/ req' = [req EXCEPT ![r] = ResumeChecked(Answered(@, "direct"), FALSE)]
  /\ UNCHANGED notAddVars
  /\ UNCHANGED <<now, recentAdds, playlistCache, playlistCacheRefreshPromise,
                 dedupeWindow, playlist, snapshot, envSteps, job>>

\* playlistHasTrackDirect: the call for the total (402) answers.
DirectMetaDone(r) ==
  /\ req[r].pc = "directMeta"
  /\ \/ LET total == Len(playlist)
            offset == directStartOffset(dedupeWindow, total)
        IN
        IF offset < total
        THEN req' = [req EXCEPT ![r] = [@ EXCEPT !.pc = "directScan", !.dOffset = offset,
                                                 !.dEnd = total]]
        ELSE req' = [req EXCEPT ![r] = ResumeChecked(Answered(@, "direct"), FALSE)]
     \/ req' = [req EXCEPT ![r] = Respond(@, "error")]
  /\ UNCHANGED notAddVars
  /\ UNCHANGED <<now, recentAdds, playlistCache, playlistCacheRefreshPromise,
                 dedupeWindow, playlist, snapshot, envSteps, job>>

\* playlistHasTrackDirect: one page (412-419) answers.
DirectPageDone(r) ==
  /\ req[r].pc = "directScan"
  /\ \/ LET items == PageItems(req[r].dOffset, pageLimit(req[r].dEnd, req[r].dOffset))
            got == Len(items)
        IN
        IF req[r].trackId \in Range(items)
        THEN req' = [req EXCEPT ![r] = ResumeChecked(Answered(@, "direct"), TRUE)]
        ELSE IF got = 0 \/ ~(req[r].dOffset + got < req[r].dEnd)
        THEN req' = [req EXCEPT ![r] = ResumeChecked(Answered(@, "direct"), FALSE)]
        ELSE req' = [req EXCEPT ![r] = [@ EXCEPT !.dOffset = @ + got]]
     \/ req' = [req EXCEPT ![r] = Respond(@, "error")]
  /\ UNCHANGED notAddVars
  /\ UNCHANGED <<now, recentAdds, playlistCache, playlistCacheRefreshPromise,
                 dedupeWindow, playlist, snapshot, envSteps, job>>

\* refreshPlaylistCache(windowSize) called without a rejection handler.
BackgroundRefreshUncaught == [IdleJob EXCEPT !.stage = "meta"]

\* refreshPlaylistCache(windowSize).catch(() => {}) (621): the refresh body
\* this call starts when none is in flight.
BackgroundRefresh == [IdleJob EXCEPT !.stage = "meta", !.caught = TRUE]

\* History: x was put into the cached set (337-341 did not return early) while
\* the scans of these refresh bodies were under way.
NoteMarked(jobs, x) ==
  [j \in Requests |->
     IF /\ job[j].stage = "scan"
        /\ playlistCache.scopeKey = dedupeScopeKey(dedupeWindow)
        /\ playlistCache.updatedAt # 0
     THEN [jobs[j] EXCEPT !.marked = @ \cup {x}]
     ELSE jobs[j]]

\* A handler that awaits the refresh it started before it responds.
AddSucceededAwaitsRefresh(r) ==
  LET x == req[r].trackId IN
  /\ playlist' = Append(playlist, x)
  /\ snapshot' = snapshot + 1
  /\ recentAdds' = rememberAdd(recentAdds, x, now)
  /\ playlistCache' = markPlaylistCacheWithAddedTrack(playlistCache, x, dedupeWindow, now)
  /\ playlistCacheRefreshPromise' = RefreshCallPromise(r)
  /\ job' = NoteMarked(RefreshCallJobs(r, BackgroundRefresh), x)
  /\ req' = [req EXCEPT ![r] = [@ EXCEPT !.rememberedAt = now, !.pc = "awaitRefresh",
                                        !.awaiting = RefreshCallPromise(r)]]

\* The add-item call succeeded (617): remember, mark the cache, start the
\* background refresh without awaiting it, respond (618-630).
AddSucceeded(r) ==
  LET x == req[r].trackId IN
  /\ playlist' = Append(playlist, x)
  /\ snapshot' = snapshot + 1
  /\ recentAdds' = rememberAdd(recentAdds, x, now)
  /\ playlistCache' = markPlaylistCacheWithAddedTrack(playlistCache, x, dedupeWindow, now)
  /\ playlistCacheRefreshPromise' = RefreshCallPromise(r)
  /\ job' = NoteMarked(RefreshCallJobs(r, BackgroundRefresh), x)
  /\ req' = [req EXCEPT ![r] =
               Respond([@ EXCEPT !.rememberedAt = now], "added")]

\* A handler that remembers the track although its add-item call failed.
AddFailedRemembers(r) ==
  /\ req' = [req EXCEPT ![r] = Respond(@, "error")]
  /\ recentAdds' = rememberAdd(recentAdds, req[r].trackId, now)
  /\ UNCHANGED <<playlist, snapshot, playlistCache, playlistCacheRefreshPromise, job>>

\* The add-item call failed (268-271 -> 632).
AddFailed(r) ==
  /\ req' = [req EXCEPT ![r] = Respond(@, "error")]
  /\ UNCHANGED <<playlist, snapshot, recentAdds, playlistCache,
                 playlistCacheRefreshPromise, job>>

\* spotifyRequest (225-229): the first add-item call returned 401, the token was
\* refreshed and the call is issued again.
AddReissued(r) ==
  /\ req[r].pc = "add1"
  /\ req' = [req EXCEPT ![r] = [@ EXCEPT !.pc = "add2", !.addCalls = @ + 1,
                                         !.log = Append(@, "add")]]
  /\ UNCHANGED <<playlist, snapshot, recentAdds, playlistCache,
                 playlistCacheRefreshPromise, job>>

AddDone(r) ==
  /\ req[r].pc \in {"add1", "add2"}
  /\ \/ AddSucceeded(r)
     \/ AddFailed(r)
     \/ AddReissued(r)
  /\ UNCHANGED notAddVars
  /\ UNCHANGED <<now, dedupeWindow, envSteps>>

(* --------------------------- environment ------------------------------- *)

\* Another client appends an item to the playlist or removes one.
ExternalChange ==
  /\ envSteps < MaxEnvSteps
  /\ envSteps' = envSteps + 1
  /\ snapshot' = snapshot + 1
  /\ \/ \E x \in TrackIds : playlist' = Append(playlist, x)
     \/ \E i \in DOMAIN playlist :
          playlist' = SubSeq(playlist, 1, i - 1) \o SubSeq(playlist, i + 1, Len(playlist))
  /\ UNCHANGED notAddVars
  /\ UNCHANGED <<now, recentAdds, playlistCache, playlistCacheRefreshPromise,
                 dedupeWindow, req, job>>

Tick ==
  /\ envSteps < MaxEnvSteps
  /\ envSteps' = envSteps + 1
  /\ now' = now + TickMs
  /\ UNCHANGED notAddVars
  /\ UNCHANGED <<recentAdds, playlistCache, playlistCacheRefreshPromise,
                 dedupeWindow, playlist, snapshot, req, job>>

\* The destination playlist as the process starts; other clients fill it.
InitPlaylists == {<<>>}

\* e: the changes of the environment that have been spent.
InitAddFrom(e) ==
  /\ now = TickMs
  /\ recentAdds = [x \in TrackIds |-> 0]
  /\ playlistCache = EmptyCache
  /\ playlistCacheRefreshPromise = NoJob
  /\ dedupeWindow \in Windows
  /\ playlist \in InitPlaylists
  /\ snapshot = 1
  /\ envSteps = e
  /\ req = [r \in Requests |-> IdleReq]
  /\ job = [r \in Requests |-> IdleJob]

InitAdd == InitAddFrom(0)

(* ------------------------------------------------------------------ *)
(* Zone arbitrator (pickActiveZone and its helpers).                   *)
(* ------------------------------------------------------------------ *)

\* Track URIs a speaker reports, one per shape the helpers tell apart.
UriNone == ""
UriTv == "x-sonos-htastream:RINCON_1:spdif"
UriLineIn == "x-rincon-stream:RINCON_2"
UriSpotify == "x-sonos-spotify:spotify%3atrack%3aX?sid=9"
UriPlain == "spotify:track:Y"
UriHttp == "x-sonos-http:song.mp4"
UriFile == "x-file-cifs://nas/song.mp3"

\* uri.match(/spotify%3atrack%3a(..)/), then uri.match(/spotify:track:(..)/)
extractSpotifyTrackId(uri) ==
  IF uri = UriNone THEN NoTrack
  ELSE IF uri = UriSpotify THEN "X"
  ELSE IF uri = UriPlain THEN "Y"
  ELSE NoTrack

\* startsWith("x-sonos-htastream:") || includes(":spdif") || includes(":hdmi_arc")
isTvLikeUri(uri) == uri \in {UriTv} \/ uri \in {UriTv} \/ uri \in {}

\* startsWith("x-sonos-auxin:") || includes("x-rincon-stream:")
isLineInUri(uri) == uri \in {} \/ uri \in {UriLineIn}

isMusicLikeTrack(track) ==
  IF track.uri = UriNone THEN FALSE
  ELSE IF isTvLikeUri(track.uri) \/ isLineInUri(track.uri) THEN FALSE
  ELSE IF track.duration > 0 /\ track.title # "" THEN TRUE
  ELSE track.uri \in {UriSpotify, UriPlain, UriHttp}

isActive(zone) ==
  \E i \in DOMAIN zone.members : zone.members[i].state.playbackState = "PLAYING"

coordinatorOf(zone) ==
  IF \E i \in DOMAIN zone.members : zone.members[i].coordinator
    THEN LET first == CHOOSE i \in DOMAIN zone.members :
                        /\ zone.members[i].coordinator
                        /\ \A k \in 1..(i - 1) : ~zone.members[k].coordinator
         IN zone.members[first]
    ELSE zone.members[1]

zoneHasSpotifyTrack(zone) ==
  extractSpotifyTrackId(coordinatorOf(zone).state.currentTrack.uri) # NoTrack

zoneHasMusic(zone) == isMusicLikeTrack(coordinatorOf(zone).state.currentTrack)

\* String.prototype.toLowerCase on the room names of the model.
toLowerCase(name) ==
  IF name = "Den" THEN "den"
  ELSE IF name = "Kitchen" THEN "kitchen"
  ELSE name

\* Place of a lower-cased name in collation order.
CollationRank(name) ==
  IF name = "" THEN 0
  ELSE IF name = "den" THEN 1
  ELSE IF name = "kitchen" THEN 2
  ELSE 3

\* Array.prototype.sort on lower-cased names.
RECURSIVE SortedNames(_)
SortedNames(names) ==
  IF names = <<>> THEN <<>>
  ELSE LET rest == SortedNames(Tail(names))
           n == Head(names)
           k == Cardinality({i \in DOMAIN rest :
                               CollationRank(rest[i]) <= CollationRank(n)})
       IN SubSeq(rest, 1, k) \o <<n>> \o SubSeq(rest, k + 1, Len(rest))

zoneSortKey(zone) ==
  [coordinatorName |-> toLowerCase(coordinatorOf(zone).roomName),
   memberNames |->
     SortedNames(SelectSeq([i \in DOMAIN zone.members |->
                              toLowerCase(zone.members[i].roomName)],
                           LAMBDA n : n # ""))]

RECURSIVE CompareNames(_, _)
CompareNames(s, t) ==
  IF s = <<>> /\ t = <<>> THEN 0
  ELSE IF s = <<>> THEN -1
  ELSE IF t = <<>> THEN 1
  ELSE IF CollationRank(Head(s)) < CollationRank(Head(t)) THEN -1
  ELSE IF CollationRank(Head(s)) > CollationRank(Head(t)) THEN 1
  ELSE CompareNames(Tail(s), Tail(t))

\* zoneSortKey(a).localeCompare(zoneSortKey(b)) on "coordinator::m1|m2"
localeCompare(a, b) ==
  CompareNames(<<a.coordinatorName>> \o a.memberNames,
               <<b.coordinatorName>> \o b.memberNames)

\* [...zones].sort(cmp): the sort is stable, equal keys keep their input order.
RECURSIVE sortZonesDeterministically(_)
sortZonesDeterministically(zs) ==
  IF zs = <<>> THEN <<>>
  ELSE LET front == sortZonesDeterministically(SubSeq(zs, 1, Len(zs) - 1))
           z == zs[Len(zs)]
           k == Cardinality({i \in DOMAIN front :
                  localeCompare(zoneSortKey(front[i]), zoneSortKey(z)) <= 0})
       IN SubSeq(front, 1, k) \o <<z>> \o SubSeq(front, k + 1, Len(front))

NoZone == [members |-> <<>>]

HasRoom(zone, room) ==
  \E i \in DOMAIN zone.members : zone.members[i].roomName = room

filterByMode(zs, m) == IF m = "any" THEN zs ELSE SelectSeq(zs, zoneHasMusic)

\* pickActiveZone without tier 2 (the native-track preference).
pickActiveZoneNoSpotifyTier(zs, room, m) ==
  LET active == sortZonesDeterministically(SelectSeq(zs, isActive))
      filtered == filterByMode(SelectSeq(active, LAMBDA z : HasRoom(z, room)), m)
      musicZones == filterByMode(active, m)
  IN IF active = <<>> THEN NoZone
     ELSE IF room # "" /\ filtered # <<>> THEN filtered[1]
     ELSE IF musicZones # <<>> THEN musicZones[1]
     ELSE active[1]

\* pickActiveZone whose tier 1 skips the mode filter.
pickActiveZonePreferredUnfiltered(zs, room, m) ==
  LET active == sortZonesDeterministically(SelectSeq(zs, isActive))
      candidates == SelectSeq(active, LAMBDA z : HasRoom(z, room))
      spotifyFirst == SelectSeq(filterByMode(active, m), zoneHasSpotifyTrack)
      musicZones == filterByMode(active, m)
  IN IF active = <<>> THEN NoZone
     ELSE IF room # "" /\ candidates # <<>> THEN candidates[1]
     ELSE IF spotifyFirst # <<>> THEN spotifyFirst[1]
     ELSE IF musicZones # <<>> THEN musicZones[1]
     ELSE active[1]

\* pickActiveZone that looks for a native track before the preferred room.
pickActiveZoneSpotifyFirst(zs, room, m) ==
  LET active == sortZonesDeterministically(SelectSeq(zs, isActive))
      candidates == SelectSeq(active, LAMBDA z : HasRoom(z, room))
      filtered == filterByMode(candidates, m)
      spotifyFirst == SelectSeq(filterByMode(active, m), zoneHasSpotifyTrack)
      musicZones == filterByMode(active, m)
  IN IF active = <<>> THEN NoZone
     ELSE IF spotifyFirst # <<>> THEN spotifyFirst[1]
     ELSE IF room # "" /\ filtered # <<>> THEN filtered[1]
     ELSE IF musicZones # <<>> THEN musicZones[1]
     ELSE active[1]

pickActiveZone(zs, room, m) ==
  LET active == sortZonesDeterministically(SelectSeq(zs, isActive))
      candidates == SelectSeq(active, LAMBDA z : HasRoom(z, room))
      filtered == filterByMode(candidates, m)
      spotifyFirst == SelectSeq(filterByMode(active, m), zoneHasSpotifyTrack)
      musicZones == filterByMode(active, m)
  IN IF active = <<>> THEN NoZone
     ELSE IF room # "" /\ filtered # <<>> THEN filtered[1]
     ELSE IF spotifyFirst # <<>> THEN spotifyFirst[1]
     ELSE IF musicZones # <<>> THEN musicZones[1]
     ELSE active[1]

\* ---- the snapshots the arbitrator is applied to ----

RoomNames == {"Den", "den", "Kitchen"}
PlaybackStates == {"PLAYING", "TRANSITIONING", "STOPPED"}
Modes == {"music", "any"}

Track(uri, duration, title) == [uri |-> uri, duration |-> duration, title |-> title]

CurrentTracks ==
  {Track(UriNone, 0, ""), Track(UriTv, 0, ""), Track(UriLineIn, 0, ""),
   Track(UriSpotify, 180, "Song"), Track(UriHttp, 0, ""),
   Track(UriFile, 180, "Song"), Track(UriFile, 0, "")}

Member(room, flag, st) == [roomName |-> room, coordinator |-> flag, state |-> st]

MemberStates ==
  [playbackState : PlaybackStates, currentTrack : CurrentTracks]

\* What a grouped speaker reports in the snapshots of this model.
GroupedStates ==
  [playbackState : {"PLAYING", "STOPPED"},
   currentTrack : {Track(UriTv, 0, ""), Track(UriSpotify, 180, "Song")}]

\* Which member of a two-room zone carries the coordinator flag (0: neither).
Flagged == {0, 1, 2}

RoomSeqs(n) ==
  {rs \in [1..n -> RoomNames] : \A i, k \in 1..n : i # k => rs[i] # rs[k]}

SoloZone(room, st) == [members |-> <<Member(room, TRUE, st)>>]

PairZone(r1, s1, r2, s2, f) ==
  [members |-> <<Member(r1, f = 1, s1), Member(r2, f = 2, s2)>>]

\* Zones of one room each.
SoloSnapshot(rs, st) == [i \in DOMAIN rs |-> SoloZone(rs[i], st[i])]

\* A zone of two rooms, alone or listed before or after the zone of a third.
PairSnapshots(p, r, st) ==
  IF HasRoom(p, r) THEN {<<p>>}
  ELSE {<<p, SoloZone(r, st)>>, <<SoloZone(r, st), p>>}

IsSnapshot(zs) ==
  \/ \E n \in 0..MaxZones : \E rs \in RoomSeqs(n), st \in [1..n -> MemberStates] :
       zs = SoloSnapshot(rs, st)
  \/ \E rs \in RoomSeqs(2), st \in [1..2 -> GroupedStates], f \in Flagged :
       \E r \in RoomNames, s3 \in MemberStates :
         /\ zs \in PairSnapshots(PairZone(rs[1], st[1], rs[2], st[2], f), r, s3)
         /\ Len(zs) <= MaxZones

swap(zs, i) == [zs EXCEPT ![i] = zs[i + 1], ![i + 1] = zs[i]]

NotCalled == [called |-> FALSE, zone |-> NoZone]

\* GET /zones answers: the arbitrator runs on the snapshot as listed.
SelectZone ==
  /\ ~selected.called
  /\ LET zone == pickActiveZone(zones, preferredRoom, mode)
     IN /\ selected' = [called |-> TRUE, zone |-> zone]
        /\ selections' = selections \cup {zone}
  /\ UNCHANGED <<zones, preferredRoom, mode>>
  /\ UNCHANGED notZoneVars

\* The gateway lists the same zones in another order.
ReorderZones ==
  /\ \E i \in 1..(Len(zones) - 1) : zones' = swap(zones, i)
  /\ selected' = NotCalled
  /\ UNCHANGED <<preferredRoom, mode, selections>>
  /\ UNCHANGED notZoneVars

ZonesIdle ==
  /\ zones = <<>>
  /\ preferredRoom = ""
  /\ mode = "music"
  /\ selected = NotCalled
  /\ selections = {}

AddIdle ==
  /\ now = TickMs
  /\ recentAdds = [x \in TrackIds |-> 0]
  /\ playlistCache = EmptyCache
  /\ playlistCacheRefreshPromise = NoJob
  /\ dedupeWindow = WindowAll
  /\ playlist = <<>>
  /\ snapshot = 1
  /\ envSteps = 0
  /\ req = [r \in Requests |-> IdleReq]
  /\ job = [r \in Requests |-> IdleJob]

(* ------------- the add route's Sonos fallback (546-588) ---------------- *)

\* What GET /zones can answer to the add route.
AddSnapshots ==
  {<<>>, <<SoloZone("Den", [playbackState |-> "STOPPED",
                            currentTrack |-> Track(UriSpotify, 180, "Song")])>>}
    \cup {<<SoloZone("Den", [playbackState |-> "PLAYING", currentTrack |-> t])>> :
            t \in {Track(UriTv, 0, ""), Track(UriHttp, 0, ""), Track(UriFile, 0, ""),
                   Track(UriSpotify, 180, "Song")}}
    \cup {<<SoloZone("Den", [playbackState |-> "PLAYING",
                            currentTrack |-> Track(UriTv, 0, "")]),
            SoloZone("Kitchen", [playbackState |-> "PLAYING",
                                 currentTrack |-> Track(UriSpotify, 180, "Song")])>>}

\* req.query.room
RoomOverrides == {"", "Den"}

\* coordinator?.state?.currentTrack (559-560)
coordinatorTrack(zone) == coordinatorOf(zone).state.currentTrack

sonosRejectNoModeCheck(zone, m) ==
  IF zone = NoZone THEN "Nothing playing (Spotify and Sonos empty)"
  ELSE IF extractSpotifyTrackId(coordinatorTrack(zone).uri) = NoTrack
    THEN "Current item is not a Spotify track (or no URI)"
  ELSE ""

\* The reason the fallback answers added:false with (557-580), "" when it
\* goes on with the zone's track.
sonosReject(zone, m) ==
  IF zone = NoZone THEN "Nothing playing (Spotify and Sonos empty)"
  ELSE IF m # "any" /\ ~isMusicLikeTrack(coordinatorTrack(zone))
    THEN "Active zone is TV/line-in; ignoring in music mode"
  ELSE IF extractSpotifyTrackId(coordinatorTrack(zone).uri) = NoTrack
    THEN "Current item is not a Spotify track (or no URI)"
  ELSE ""

\* getZones returns (552-588), or throws (632).
ZonesDone(r) ==
  /\ req[r].pc = "zones"
  /\ \/ ResolvedNone(r, "error", NoSeen)
     \/ \E zs \in AddSnapshots, room \in RoomOverrides, m \in Modes :
          LET zone == pickActiveZone(zs, room, m)
          IN IF sonosReject(zone, m) # ""
               THEN ResolvedNone(r, sonosReject(zone, m), [mode |-> m, zone |-> zone])
               ELSE ResolvedTrack(r, extractSpotifyTrackId(coordinatorTrack(zone).uri),
                                  "sonos", NoAnswer)


(* ------------------------------------------------------------------ *)
(* One scan against a declared total (354-374 and 398-422).            *)
(* ------------------------------------------------------------------ *)

ScanKinds == {"refresh", "direct"}
ScanTotals == (0..ScanMaxTotal) \cup {DEFAULT_DE_DUPE_WINDOW, DEFAULT_DE_DUPE_WINDOW + 1, 500}
ScanWindows == {WindowAll, 1, PAGE_LIMIT + 1, DEFAULT_DE_DUPE_WINDOW}
NoOffset == -1

ScanIdle ==
  scan = [kind |-> "refresh", total |-> 0, window |-> WindowAll, pc |-> "done",
          offset |-> 0, limit |-> 0, first |-> NoOffset]

\* const end = Math.max(0, total) (357); const end = total (407)
scanEnd(kind, total) == IF kind = "refresh" THEN Max(0, total) ELSE total

scanFirstOffset(kind, w, total) ==
  IF kind = "refresh" THEN scanStartOffset(w, total) ELSE directStartOffset(w, total)

\* A loop that tests offset <= end: one more request at the declared total.
ScanLoopInclusive(sc, offset) ==
  LET end == scanEnd(sc.kind, sc.total) IN
  IF offset <= end
  THEN [sc EXCEPT !.pc = "page", !.offset = offset, !.limit = pageLimit(end, offset),
                  !.first = IF sc.first = NoOffset THEN offset ELSE sc.first]
  ELSE [sc EXCEPT !.pc = "done", !.offset = offset, !.limit = 0]

\* The while loop's test and, if it passes, the page request it issues.
ScanLoop(sc, offset) ==
  LET end == scanEnd(sc.kind, sc.total) IN
  IF offset < end
  THEN [sc EXCEPT !.pc = "page", !.offset = offset, !.limit = pageLimit(end, offset),
                  !.first = IF sc.first = NoOffset THEN offset ELSE sc.first]
  ELSE [sc EXCEPT !.pc = "done", !.offset = offset, !.limit = 0]

\* The total is declared: the scan computes its start and enters the loop.
ScanStart ==
  /\ scan.pc = "start"
  /\ scan' = ScanLoop(scan, scanFirstOffset(scan.kind, scan.window, scan.total))
  /\ UNCHANGED notScanVars

\* A page answers with got items (or the fetch fails, or the direct scan finds
\* the track in the page): break on an empty page, else advance and loop.
ScanPageDone ==
  /\ scan.pc = "page"
  /\ \/ \E got \in 0..scan.limit :
          scan' = IF got = 0
                  THEN [scan EXCEPT !.pc = "done", !.limit = 0]
                  ELSE ScanLoop(scan, scan.offset + got)
     \/ scan' = [scan EXCEPT !.pc = "failed", !.limit = 0]
     \/ /\ scan.kind = "direct"
        /\ scan' = [scan EXCEPT !.pc = "found", !.limit = 0]
  /\ UNCHANGED notScanVars


(* ------------------------------------------------------------------ *)
(* Credential manager and the 401 wrappers (182-293).                  *)
(* ------------------------------------------------------------------ *)

\* What one HTTP attempt can come back with: a status, or 0 when fetch throws
\* (network failure, or the abort on timeout).
Threw == 0
Statuses == {200, 401, 403, 500}
Wrappers == {"spotifyRequest", "fetchSpotifyJsonWithRetry"}

IdleCall ==
  [wrapper |-> "spotifyRequest", retries |-> 0, pc |-> "idle", token |-> 0,
   attempt |-> 0, refreshAttempt |-> 0,
   issued |-> 0, saw401 |-> FALSE, after401 |-> 0, cleared |-> 0, forced |-> 0,
   waits |-> <<>>, outcome |-> "none", last |-> 0]

CallIdle ==
  /\ cachedAccessToken = 0
  /\ cachedAccessTokenExpiresAt = 0
  /\ exchanges = 0
  /\ callNow = CallTickMs
  /\ calls = 0
  /\ call = IdleCall

\* A cache test that forgets the skew.
tokenCacheValidNoSkew(forceRefresh) ==
  /\ ~forceRefresh
  /\ cachedAccessToken # 0
  /\ callNow < cachedAccessTokenExpiresAt

\* getAccessToken's test for answering from the cache (192-198).
tokenCacheValid(forceRefresh) ==
  /\ ~forceRefresh
  /\ cachedAccessToken # 0
  /\ callNow < cachedAccessTokenExpiresAt - ACCESS_TOKEN_SKEW_MS

\* 200 * Math.pow(2, attempt)
Pow2(n) == IF n = 0 THEN 1 ELSE IF n = 1 THEN 2 ELSE IF n = 2 THEN 4 ELSE 8
backoffMs(attempt) == BACKOFF_BASE_MS * Pow2(attempt)

\* The wrapper hands the token to an HTTP attempt.
Issue(c, token) ==
  [c EXCEPT !.pc = "http", !.token = token, !.issued = @ + 1,
            !.after401 = IF c.saw401 THEN @ + 1 ELSE @]

Finish(c, outcome) == [c EXCEPT !.pc = "done", !.outcome = outcome]

\* A caller invokes a wrapper: getAccessToken() answers from the cache and the
\* first attempt goes out, or the token exchange goes out first.
CallStart ==
  /\ call.pc \in {"idle", "done"}
  /\ calls < MaxCalls
  /\ calls' = calls + 1
  /\ \E w \in Wrappers, n \in {DEFAULT_RETRIES, TRACK_LOOKUP_RETRIES} :
       LET c == [IdleCall EXCEPT !.wrapper = w,
                                 !.retries = IF w = "spotifyRequest" THEN 0 ELSE n]
       IN call' = IF tokenCacheValid(FALSE)
                  THEN Issue(c, cachedAccessToken)
                  ELSE [c EXCEPT !.pc = "token"]
  /\ UNCHANGED <<cachedAccessToken, cachedAccessTokenExpiresAt, exchanges, callNow>>
  /\ UNCHANGED notCallVars

\* The token exchange answers (207-219): the cache is filled and the attempt
\* goes out with the new token, or the exchange failed and the wrapper throws.
TokenExchangeDone ==
  /\ call.pc \in {"token", "forceToken"}
  /\ \/ /\ exchanges' = exchanges + 1
        /\ cachedAccessToken' = exchanges + 1
        /\ cachedAccessTokenExpiresAt' = callNow + DEFAULT_EXPIRES_IN_SEC * 1000
        /\ call' = Issue(call, exchanges + 1)
     \/ /\ call' = Finish(call, "token refresh failed")
        /\ UNCHANGED <<cachedAccessToken, cachedAccessTokenExpiresAt, exchanges>>
  /\ UNCHANGED <<callNow, calls>>
  /\ UNCHANGED notCallVars

\* clearAccessTokenCache(); getAccessToken({forceRefresh: true})
ForceRefresh(c) ==
  [c EXCEPT !.pc = "forceToken", !.cleared = @ + 1, !.forced = @ + 1]

\* A wrapper that refreshes the token and issues the call again on every 401.
spotifyRequestOnEvery401(c, status) ==
  IF status = Threw THEN Finish(c, "threw")
  ELSE IF status = 401 THEN ForceRefresh(c)
  ELSE Finish(c, IF status = 200 THEN "ok" ELSE "error")

\* spotifyRequest (222-231): what it does with the response to an attempt.
spotifyRequestOn(c, status) ==
  IF status = Threw THEN Finish(c, "threw")
  ELSE IF status = 401 /\ c.issued = 1 THEN ForceRefresh(c)
  ELSE Finish(c, IF status = 200 THEN "ok" ELSE IF status = 401 THEN "401" ELSE "error")

\* A retry loop that makes one attempt fewer (attempt < retries - 1 retried).
fetchJsonOnOneFewer(c, status) ==
  IF status = 200 THEN Finish(c, "ok")
  ELSE IF c.attempt + 1 < c.retries
    THEN [c EXCEPT !.pc = "backoff", !.waits = Append(@, backoffMs(c.attempt))]
  ELSE IF c.refreshAttempt = 0 /\ status = 401
    THEN [ForceRefresh(c) EXCEPT !.refreshAttempt = 1, !.attempt = 0]
  ELSE Finish(c, IF status = Threw THEN "threw" ELSE IF status = 401 THEN "401" ELSE "error")

\* fetchJsonWithRetry's catch (287-291) and, when it rethrows,
\* fetchSpotifyJsonWithRetry's catch (244-251).
fetchJsonOn(c, status) ==
  IF status = 200 THEN Finish(c, "ok")
  ELSE IF c.attempt # c.retries
    THEN [c EXCEPT !.pc = "backoff", !.waits = Append(@, backoffMs(c.attempt))]
  ELSE IF c.refreshAttempt = 0 /\ status = 401
    THEN [ForceRefresh(c) EXCEPT !.refreshAttempt = 1, !.attempt = 0]
  ELSE Finish(c, IF status = Threw THEN "threw" ELSE IF status = 401 THEN "401" ELSE "error")

\* An HTTP attempt comes back.
AttemptDone ==
  /\ call.pc = "http"
  /\ \E status \in Statuses \cup {Threw} :
       LET c == [call EXCEPT !.saw401 = @ \/ status = 401, !.last = status] IN
       call' = IF call.wrapper = "spotifyRequest"
                 THEN spotifyRequestOn(c, status)
                 ELSE fetchJsonOn(c, status)
  /\ cachedAccessToken' = IF call'.cleared > call.cleared THEN 0 ELSE cachedAccessToken
  /\ cachedAccessTokenExpiresAt' =
       IF call'.cleared > call.cleared THEN 0 ELSE cachedAccessTokenExpiresAt
  /\ UNCHANGED <<exchanges, callNow, calls>>
  /\ UNCHANGED notCallVars

\* The backoff timer fires: the next attempt goes out with the same token.
BackoffDone ==
  /\ call.pc = "backoff"
  /\ call' = Issue([call EXCEPT !.attempt = @ + 1], call.token)
  /\ UNCHANGED <<cachedAccessToken, cachedAccessTokenExpiresAt, exchanges, callNow, calls>>
  /\ UNCHANGED notCallVars

\* Time passes between two calls.
CallTick ==
  /\ call.pc \in {"idle", "done"}
  /\ callNow < CallTickMs * (MaxCallTicks + 1)
  /\ callNow' = callNow + CallTickMs
  /\ UNCHANGED <<cachedAccessToken, cachedAccessTokenExpiresAt, exchanges, calls, call>>
  /\ UNCHANGED notCallVars

(* ------------------------------------------------------------------ *)
(* The /group route (640-782).                                         *)
(* ------------------------------------------------------------------ *)

NoResponse == [status |-> 0, ok |-> FALSE, coordinator |-> "", joined |-> <<>>,
               skipped_already_grouped |-> <<>>, failed |-> <<>>,
               volumes_set |-> {}, volumes_failed |-> {}]

\* Number(num) (680): a number, or NaN.
Level(n) == [nan |-> FALSE, value |-> n]
NaNLevel == [nan |-> TRUE, value |-> 0]

\* The texts a level is given as.
Number(text) ==
  IF text = "12" THEN Level(12) ELSE IF text = "18" THEN Level(18) ELSE NaNLevel

\* The volumes input of a request (676): absent, "Room:Level" parts as text (a
\* query parameter, a JSON string or an array of them), or a JSON object
\* {Room: Level}.
VolumesInput(form, levels) == [form |-> form, levels |-> levels]

NoLevels == [r \in {} |-> ""]
NoVolumes == VolumesInput("none", NoLevels)

\* parseVolumes (674-686): a part counts when it splits at ":" into a name and
\* a level; String(raw) of an object is "[object Object]", which has none.
parseVolumes(raw) ==
  IF raw.form = "text"
    THEN [r \in DOMAIN raw.levels |-> Number(raw.levels[r])]
    ELSE [r \in {} |-> NaNLevel]

IdleGroup ==
  [pc |-> "idle", rooms |-> <<>>, volumes |-> NoVolumes,
   volumesMap |-> [r \in {} |-> NaNLevel], volumeCalls |-> {},
   coordinatorName |-> "", existing |-> {}, toJoin |-> <<>>, next |-> 1,
   joined |-> <<>>, joinFailed |-> <<>>, pending |-> {},
   volumes_set |-> {}, volumes_failed |-> {},
   sent |-> <<>>, outcomes |-> <<>>, settles |-> 0,
   res |-> NoResponse, responses |-> 0]

GroupIdle == grp = IdleGroup

zoneByRoom(zs, room) ==
  IF room = "" \/ ~\E i \in DOMAIN zs : HasRoom(zs[i], room) THEN NoZone
  ELSE zs[CHOOSE i \in DOMAIN zs :
            /\ HasRoom(zs[i], room)
            /\ \A k \in 1..(i - 1) : ~HasRoom(zs[k], room)]

\* A preferred room that wins over the selected zone.
resolveCoordinatorPreferredFirst(zone, preferred, rooms) ==
  IF preferred # "" THEN preferred
  ELSE IF zone # NoZone THEN coordinatorOf(zone).roomName
  ELSE rooms[1]

\* let coordinatorName = zone ? coordinatorOf(zone)?.roomName : ""; if
\* (!coordinatorName) coordinatorName = preferred || rooms[0] (722-725)
resolveCoordinator(zone, preferred, rooms) ==
  LET name == IF zone # NoZone THEN coordinatorOf(zone).roomName ELSE ""
  IN IF name # "" THEN name
     ELSE IF preferred # "" THEN preferred
     ELSE rooms[1]

\* Membership taken to be the coordinator alone, whatever the topology shows.
existingOfCoordinatorOnly(zs, coordinatorName) == {coordinatorName}

\* new Set(coordZone ? coordZone.members.map(m => m.roomName) : [coordinatorName])
existingOf(zs, coordinatorName) ==
  LET coordZone == zoneByRoom(zs, coordinatorName)
  IN IF coordZone # NoZone
       THEN {coordZone.members[i].roomName : i \in DOMAIN coordZone.members}
       ELSE {coordinatorName}

sendJson(g, status, ok) ==
  [g EXCEPT !.pc = "done", !.responses = @ + 1,
            !.res = [status |-> status, ok |-> ok,
                     coordinator |-> IF ok THEN g.coordinatorName ELSE "",
                     joined |-> IF ok THEN g.joined ELSE <<>>,
                     skipped_already_grouped |->
                       IF ok THEN SelectSeq(g.rooms, LAMBDA r :
                                    r \in g.existing \/ r = g.coordinatorName)
                       ELSE <<>>,
                     failed |-> IF ok THEN g.joinFailed ELSE <<>>,
                     volumes_set |-> IF ok THEN g.volumes_set ELSE {},
                     volumes_failed |-> IF ok THEN g.volumes_failed ELSE {}]]

\* The join loop is over (755-757): setRoomVolume is called for every key of
\* the parsed map at once; it throws before its HTTP call on a NaN level
\* (662-663) and sends the call otherwise. With no call to await the response
\* is sent right away.
StartVolumes(g) ==
  LET volumeRooms == DOMAIN g.volumesMap
      valid == {r \in volumeRooms : ~g.volumesMap[r].nan}
      g1 == [g EXCEPT !.volumeCalls = valid,
                      !.volumes_failed = volumeRooms \ valid,
                      !.sent = @ \o [i \in 1..Cardinality(valid) |-> "volume"]]
  IN IF valid = {} THEN sendJson(g1, 200, TRUE)
     ELSE [g1 EXCEPT !.pc = "volumes", !.pending = valid]

\* A join failure ends the loop.
JoinLoopStopsAtFailure(g, failedNow) ==
  IF g.next <= Len(g.toJoin) /\ ~failedNow
  THEN [g EXCEPT !.pc = "join", !.sent = Append(@, g.toJoin[g.next])]
  ELSE StartVolumes(g)

\* The first two join calls go out together.
JoinLoopTwoAtOnce(g, failedNow) ==
  IF g.next <= Len(g.toJoin)
  THEN [g EXCEPT !.pc = "join",
                 !.sent = @ \o (IF g.next = 1 /\ Len(g.toJoin) >= 2
                                  THEN <<g.toJoin[1], g.toJoin[2]>>
                                  ELSE IF g.next = 2 THEN <<>>
                                  ELSE <<g.toJoin[g.next]>>)]
  ELSE StartVolumes(g)

\* The head of the for loop (741): the next join call goes out, or the loop
\* is over.
JoinLoop(g, failedNow) ==
  IF g.next <= Len(g.toJoin)
  THEN [g EXCEPT !.pc = "join", !.sent = Append(@, g.toJoin[g.next])]
  ELSE StartVolumes(g)

\* The request arrives: the rooms and the volumes are parsed and getZones()
\* goes out (707-718).
GroupStart ==
  /\ grp.pc = "idle"
  /\ grp' = IF grp.rooms = <<>> THEN sendJson(grp, 400, FALSE)
            ELSE [grp EXCEPT !.pc = "zones", !.sent = Append(@, "zones"),
                             !.volumesMap = parseVolumes(grp.volumes)]
  /\ UNCHANGED notGroupVars

\* getZones() answers: the coordinator and the rooms to join are worked out
\* and the first join call goes out (719-742); or it failed (779-781).
GroupZonesDone ==
  /\ grp.pc = "zones"
  /\ \/ LET zone == pickActiveZone(zones, preferredRoom, mode)
            name == resolveCoordinator(zone, preferredRoom, grp.rooms)
            existing == existingOf(zones, name)
            toJoin == SelectSeq(grp.rooms, LAMBDA r :
                        r # "" /\ r # name /\ r \notin existing)
        IN grp' = IF name = "" THEN sendJson(grp, 500, FALSE)
                  ELSE JoinLoop([grp EXCEPT !.coordinatorName = name,
                                            !.existing = existing,
                                            !.toJoin = toJoin, !.next = 1], FALSE)
     \/ grp' = sendJson(grp, 500, FALSE)
  /\ UNCHANGED notGroupVars

\* A join call answers: on success the room is recorded and the settle delay
\* starts (743-747); on failure the error is recorded and the loop goes on (748-750).
\* A join loop that goes on at once after a join that succeeded.
GroupJoinDoneNoSettle ==
  /\ grp.pc = "join"
  /\ LET room == grp.toJoin[grp.next] IN
     \/ grp' = JoinLoop([grp EXCEPT !.joined = Append(@, room),
                                    !.outcomes = Append(@, "ok"), !.next = @ + 1], FALSE)
     \/ grp' = JoinLoop([grp EXCEPT
                           !.joinFailed = Append(@, [room |-> room, error |-> "join failed"]),
                           !.outcomes = Append(@, "failed"), !.next = @ + 1], TRUE)
  /\ UNCHANGED notGroupVars

\* joinRoomTo comes back (744-751): on success the settle timer is started
\* (749); on failure the loop goes on to the next room at once (750-752).
GroupJoinDone ==
  /\ grp.pc = "join"
  /\ LET room == grp.toJoin[grp.next] IN
     \/ grp' = [grp EXCEPT !.pc = "settle", !.joined = Append(@, room),
                           !.outcomes = Append(@, "ok"), !.next = @ + 1]
     \/ grp' = JoinLoop([grp EXCEPT
                           !.joinFailed = Append(@, [room |-> room, error |-> "join failed"]),
                           !.outcomes = Append(@, "failed"), !.next = @ + 1], TRUE)
  /\ UNCHANGED notGroupVars

\* The settle delay after a successful join is over.
GroupSettleDone ==
  /\ grp.pc = "settle"
  /\ grp' = JoinLoop([grp EXCEPT !.settles = @ + 1], FALSE)
  /\ UNCHANGED notGroupVars

\* One volume call settles; when all have, the response is sent (758-778).
GroupVolumeDone ==
  /\ grp.pc = "volumes"
  /\ \E room \in grp.pending, fulfilled \in BOOLEAN :
       LET g == [grp EXCEPT !.pending = @ \ {room},
                            !.volumes_set = IF fulfilled THEN @ \cup {room} ELSE @,
                            !.volumes_failed = IF fulfilled THEN @ ELSE @ \cup {room}]
       IN grp' = IF g.pending = {} THEN sendJson(g, 200, TRUE) ELSE g
  /\ UNCHANGED notGroupVars

\* The topologies a group request meets: every room of the house, alone or
\* two of them grouped, listed in one order.
GroupStates ==
  {[playbackState |-> "PLAYING", currentTrack |-> Track(UriSpotify, 180, "Song")],
   [playbackState |-> "PLAYING", currentTrack |-> Track(UriTv, 0, "")],
   [playbackState |-> "STOPPED", currentTrack |-> Track(UriSpotify, 180, "Song")]}

IsGroupTopology(zs) ==
  \/ \E st \in [1..3 -> GroupStates] : zs = SoloSnapshot(<<"Den", "den", "Kitchen">>, st)
  \/ \E rs \in RoomSeqs(2), st \in GroupStates, f \in {0, 2} :
       \E r \in RoomNames, s3 \in GroupStates :
         /\ r \notin {rs[1], rs[2]}
         /\ zs = <<PairZone(rs[1], st, rs[2], st, f), SoloZone(r, s3)>>

RequestedRooms == UNION {[1..n -> RoomNames] : n \in 0..MaxRooms}
RequestedVolumes ==
  {NoVolumes,
   VolumesInput("text", [r \in {"Den", "Kitchen"} |-> IF r = "Den" THEN "12" ELSE "18"]),
   VolumesInput("text", [r \in {"Kitchen"} |-> "abc"]),
   VolumesInput("object", [r \in {"Den", "Kitchen"} |-> IF r = "Den" THEN "12" ELSE "18"])}
PreferredRooms == {"", "Den", "Office"}

(* ------------------------------------------------------------------ *)
(* The add route under a given configuration (11-20, 86, 540-634).     *)
(* ------------------------------------------------------------------ *)

\* Which of the environment's settings are present: SPOTIFY_REFRESH_TOKEN,
\* SPOTIFY_CLIENT_ID with SPOTIFY_CLIENT_SECRET, SPOTIFY_PLAYLIST_ID.
Configs == [refreshToken : BOOLEAN, client : BOOLEAN, playlistId : BOOLEAN]
FullConfig == [refreshToken |-> TRUE, client |-> TRUE, playlistId |-> TRUE]

\* sent: the upstream calls issued so far; waits: the backoff waits so far;
\* path: "cached" or "direct", the membership check's meta fetch in progress.
IdleRun(c) ==
  [cfg |-> c, pc |-> "idle", path |-> "", attempt |-> 0, sent |-> <<>>, waits |-> <<>>,
   status |-> 0, error |-> ""]

ConfigIdle == cfgRun = IdleRun(FullConfig)

\* res.json(...) (200) or the handler's catch (632): res.status(500).json(...)
RunResponds(run, status, error) ==
  [run EXCEPT !.pc = "done", !.status = status, !.error = error]

RunSends(run, what, pc) == [run EXCEPT !.pc = pc, !.sent = Append(@, what)]

\* The membership check's first call: the cache is cold, so refreshPlaylistCache
\* fetches the playlist's meta (381, 346-347).
RunStartsCheck(run) ==
  [RunSends(run, "meta", "meta") EXCEPT !.path = "cached", !.attempt = 0]

\* The request arrives (541-543): getSpotifyCurrentlyPlayingTrack ->
\* spotifyRequest -> getAccessToken (191-206), with no token cached.
ConfigStart ==
  /\ cfgRun.pc = "idle"
  /\ cfgRun' = IF ~cfgRun.cfg.refreshToken
                 THEN RunResponds(cfgRun, 500, "Missing SPOTIFY_REFRESH_TOKEN")
                 ELSE RunSends(cfgRun, "token", "token")
  /\ UNCHANGED <<addVars, zoneVars, scanVars, callVars, groupVars, recentVars>>

\* The identity provider answers the exchange (206-219): it grants a token only
\* to a client that identified itself; then the playback query goes out (459).
ConfigTokenDone ==
  /\ cfgRun.pc = "token"
  /\ \/ /\ cfgRun.cfg.client
        /\ cfgRun' = RunSends(cfgRun, "currently-playing", "playback")
     \/ cfgRun' = RunResponds(cfgRun, 500, "Token refresh failed")
  /\ UNCHANGED <<addVars, zoneVars, scanVars, callVars, groupVars, recentVars>>

\* The playback query answers (463-477): a track, so the recent-add check
\* (591, nothing remembered yet) and the membership check follow; nothing, so
\* the handler asks the gateway for the zones (552); or it failed.
ConfigPlaybackDone ==
  /\ cfgRun.pc = "playback"
  /\ \/ cfgRun' = RunStartsCheck(cfgRun)
     \/ cfgRun' = RunSends(cfgRun, "zones", "zones")
     \/ cfgRun' = RunResponds(cfgRun, 500, "Spotify now playing failed")
  /\ UNCHANGED <<addVars, zoneVars, scanVars, callVars, groupVars, recentVars>>

\* The gateway answers (552-588): nothing to add, a track, or it failed.
ConfigZonesDone ==
  /\ cfgRun.pc = "zones"
  /\ \/ cfgRun' = RunResponds(cfgRun, 200, "")
     \/ cfgRun' = RunStartsCheck(cfgRun)
     \/ cfgRun' = RunResponds(cfgRun, 500, "/zones failed")
  /\ UNCHANGED <<addVars, zoneVars, scanVars, callVars, groupVars, recentVars>>

\* A meta fetch comes back (346-347 or 402, through 233-256 and 275-293). The
\* URL carries the playlist id as it is, so without one the upstream answers
\* 404. A failure is retried after a backoff; the last one ends the cached
\* path, whereupon the direct scan fetches the meta itself (450-452), or ends
\* the direct scan and the handler. A success is followed by the pages, left
\* out here, and by addTrackToPlaylist (258-266), whose own test of the
\* playlist id (259) comes after the meta was fetched with it.
ConfigMetaDone ==
  /\ cfgRun.pc = "meta"
  /\ \/ /\ cfgRun.cfg.playlistId
        /\ cfgRun' = IF ~cfgRun.cfg.playlistId
                       THEN RunResponds(cfgRun, 500, "Missing SPOTIFY_PLAYLIST_ID")
                       ELSE RunSends(cfgRun, "add", "add")
     \/ cfgRun' =
          IF cfgRun.attempt # DEFAULT_RETRIES
          THEN [cfgRun EXCEPT !.pc = "backoff", !.waits = Append(@, backoffMs(cfgRun.attempt))]
          ELSE IF cfgRun.path = "cached"
          THEN [RunSends(cfgRun, "meta", "meta") EXCEPT !.path = "direct", !.attempt = 0]
          ELSE RunResponds(cfgRun, 500, IF cfgRun.cfg.playlistId THEN "500" ELSE "404")
  /\ UNCHANGED <<addVars, zoneVars, scanVars, callVars, groupVars, recentVars>>

\* The backoff timer fires (290): the next attempt goes out.
ConfigBackoffDone ==
  /\ cfgRun.pc = "backoff"
  /\ cfgRun' = [RunSends(cfgRun, "meta", "meta") EXCEPT !.attempt = @ + 1]
  /\ UNCHANGED <<addVars, zoneVars, scanVars, callVars, groupVars, recentVars>>

\* The add-item call comes back (267-271, 617-631).
ConfigAddDone ==
  /\ cfgRun.pc = "add"
  /\ \/ cfgRun' = RunResponds(cfgRun, 200, "")
     \/ cfgRun' = RunResponds(cfgRun, 500, "Add failed")
  /\ UNCHANGED <<addVars, zoneVars, scanVars, callVars, groupVars, recentVars>>

(* ========================== specifications ============================= *)

NextAdd ==
  \/ \E r \in Requests : StartRequest(r)
  \/ \E r \in Requests : ResolveDone(r)
  \/ \E r \in Requests : ZonesDone(r)
  \/ \E r \in Requests : RevalidateDone(r)
  \/ \E j \in Requests : JobMetaDone(j)
  \/ \E j \in Requests : JobPageDone(j)
  \/ \E r \in Requests : DirectMetaDone(r)
  \/ \E r \in Requests : DirectPageDone(r)
  \/ \E r \in Requests : AddDone(r)
  \/ ExternalChange
  \/ Tick

Init == InitAdd /\ ZonesIdle /\ ScanIdle /\ CallIdle /\ GroupIdle /\ RecentIdle /\ ConfigIdle

Next == NextAdd

\* The add flow: two concurrent /add-current-smart requests and the upstream.
Spec == Init /\ [][Next]_vars

InitZones ==
  /\ AddIdle
  /\ RecentIdle
  /\ ConfigIdle
  /\ ScanIdle
  /\ CallIdle
  /\ GroupIdle
  /\ IsSnapshot(zones)
  /\ preferredRoom \in {""} \cup RoomNames
  /\ mode \in Modes
  /\ selected = NotCalled
  /\ selections = {}

NextZones == SelectZone \/ ReorderZones

\* The zone arbitrator applied to every snapshot, in every listing order.
SpecZones == InitZones /\ [][NextZones]_vars

InitScan ==
  /\ AddIdle
  /\ RecentIdle
  /\ ConfigIdle
  /\ ZonesIdle
  /\ CallIdle
  /\ GroupIdle
  /\ \E k \in ScanKinds, t \in ScanTotals, w \in ScanWindows :
       scan = [kind |-> k, total |-> t, window |-> w, pc |-> "start",
               offset |-> 0, limit |-> 0, first |-> NoOffset]

NextScan == ScanStart \/ ScanPageDone

\* Both scans, for every declared total and scope, against every page size
\* the upstream may answer with.
SpecScan == InitScan /\ [][NextScan]_vars

\* The same scans when every page request is answered: each await in the loop
\* (363, 411) resumes.
LiveScan == InitScan /\ [][NextScan]_vars /\ WF_vars(ScanStart) /\ WF_vars(ScanPageDone)

InitCall ==
  AddIdle /\ ZonesIdle /\ ScanIdle /\ CallIdle /\ GroupIdle /\ RecentIdle /\ ConfigIdle

NextCall == CallStart \/ TokenExchangeDone \/ AttemptDone \/ BackoffDone \/ CallTick

\* Account-API calls made one after another through either wrapper, against
\* every sequence of upstream answers.
SpecCall == InitCall /\ [][NextCall]_vars

InitGroup ==
  /\ AddIdle
  /\ RecentIdle
  /\ ConfigIdle
  /\ ScanIdle
  /\ CallIdle
  /\ IsGroupTopology(zones)
  /\ preferredRoom \in PreferredRooms
  /\ mode \in Modes
  /\ selected = NotCalled
  /\ selections = {}
  /\ \E rooms \in RequestedRooms, volumes \in RequestedVolumes :
       /\ volumes = NoVolumes \/ preferredRoom = ""
       /\ grp = [IdleGroup EXCEPT !.rooms = rooms, !.volumes = volumes]

NextGroup ==
  \/ GroupStart
  \/ GroupZonesDone
  \/ GroupJoinDone
  \/ GroupSettleDone
  \/ GroupVolumeDone

\* One /group request against every topology and every outcome of its calls;
\* the requests that give volumes are those with no preferred room.
SpecGroup == InitGroup /\ [][NextGroup]_vars

\* Both routes. They share no state, so a run exercises one of them: the add
\* flow with one change of the environment left, or a group request in music
\* mode with no preferred room.
InitRoutes ==
  \/ InitAddFrom(MaxEnvSteps - 1) /\ ZonesIdle /\ ScanIdle /\ CallIdle /\ GroupIdle
     /\ RecentIdle /\ ConfigIdle
  \/ InitGroup /\ preferredRoom = "" /\ mode = "music"

NextRoutes ==
  \/ GroupIdle /\ ZonesIdle /\ NextAdd
  \/ (\A r \in Requests : req[r].pc = "idle") /\ NextGroup

SpecRoutes == InitRoutes /\ [][NextRoutes]_vars

InitRecent ==
  AddIdle /\ ZonesIdle /\ ScanIdle /\ CallIdle /\ GroupIdle /\ RecentIdle /\ ConfigIdle

NextRecent == RecentRemember \/ RecentCheck \/ RecentTick

\* The recent-add cache under every order of remembering, checking and waiting.
SpecRecent == InitRecent /\ [][NextRecent]_vars

\* The steps that come about without an upstream answering: the abort signal
\* of fetchJsonWithRetry (277-278) ends every attempt of the playlist's meta and
\* page fetches, and the settle delay (749) is a timer. The other calls are
\* plain fetch() calls (107, 206, 260, 459, 652, 665), which node-fetch leaves
\* pending for as long as the upstream says nothing.
TimeBounded ==
  /\ \A r \in Requests :
       /\ WF_vars(RevalidateDone(r))
       /\ WF_vars(JobMetaDone(r))
       /\ WF_vars(JobPageDone(r))
       /\ WF_vars(DirectMetaDone(r))
       /\ WF_vars(DirectPageDone(r))
  /\ WF_vars(GroupSettleDone)

\* Both routes against upstreams that need not answer.
LiveRoutes == InitRoutes /\ [][NextRoutes]_vars /\ TimeBounded

InitConfig ==
  /\ AddIdle /\ ZonesIdle /\ ScanIdle /\ CallIdle /\ GroupIdle /\ RecentIdle
  /\ \E c \in Configs : cfgRun = IdleRun(c)

NextConfig ==
  \/ ConfigStart
  \/ ConfigTokenDone
  \/ ConfigPlaybackDone
  \/ ConfigZonesDone
  \/ ConfigMetaDone
  \/ ConfigBackoffDone
  \/ ConfigAddDone

\* One add request from a cold start under every configuration.
SpecConfig == InitConfig /\ [][NextConfig]_vars

(* ============================ properties =============================== *)

AddCallsTotal == req["r1"].addCalls + req["r2"].addCalls

\* r's handler takes a step.
Steps(r) == req'[r] # req[r]

\* The refresh j settles with success in this step: the cache is what its
\* completed scan wrote.
RefreshSettledOk(j) ==
  /\ job[j].stage # "idle"
  /\ job'[j].stage = "idle"
  /\ LET meta == IF job[j].stage = "meta" THEN fetchPlaylistMeta ELSE job[j].meta IN
     playlistCache' = RefreshedCache(playlistCache'.ids, meta, dedupeWindow, now)
  /\ job[j].ids \subseteq playlistCache'.ids
  /\ playlistCache'.ids \subseteq job[j].ids \cup Range(playlist)

\* A revalidation that found a change and had no page to scan replaces the
\* cache in the same step.
RefreshedInline(r) ==
  /\ req[r].pc = "revalidate"
  /\ MetaDiffers(fetchPlaylistMeta, playlistCache)
  /\ playlistCacheRefreshPromise = NoJob
  /\ playlistCache' = RefreshedCache({}, fetchPlaylistMeta, dedupeWindow, now)

CacheReplacedInStep ==
  (\E j \in Requests : RefreshSettledOk(j)) \/ (\E r \in Requests : RefreshedInline(r))

\* r's membership check answers in this step.
AnswerStep(r) ==
  /\ req[r].pc \in {"revalidate", "awaitRefresh", "directMeta", "directScan"}
  /\ req'[r].pc \in {"add1", "done"}
  /\ req'[r].resp # "error"

\* r's membership check answers in this step from the cached set.
CacheAnswerStep(r) ==
  /\ req[r].pc \in {"revalidate", "awaitRefresh"}
  /\ req'[r].pc \in {"add1", "done"}

\* r's revalidation has found, or finds in this step, a changed marker or total.
SawChange(r) ==
  \/ req[r].reval = "changed"
  \/ req[r].pc = "revalidate" /\ Steps(r) /\ MetaDiffers(fetchPlaylistMeta, playlistCache)

(* C1 (as claimed): two add-flow requests resolve to the same identity, which
   was in neither tier; the second arrives after the first has responded and
   less than 10 minutes after the first add (here: the clock has not advanced
   and no other client has touched the playlist). Then exactly one add-item
   call is issued in total, the first responds added:true and the second
   responds added:false, "already in playlist (recent)". *)
C1_TwoCallsOneAdd ==
  \A r1, r2 \in Requests :
    ( /\ r1 # r2
      /\ req[r1].pc = "done" /\ req[r2].pc = "done"
      /\ r1 \in req[r2].after
      /\ req[r1].trackId # NoTrack /\ req[r1].trackId = req[r2].trackId
      /\ req[r1].absent
      /\ envSteps = 0 )
    => ( /\ AddCallsTotal = 1
         /\ req[r1].resp = "added"
         /\ req[r2].resp = "already in playlist (recent)" )

(* C1 (amended): once a request has responded added:true for an identity,
   every request whose recent-add check for that identity is made less than
   10 minutes after that add was remembered issues no add-item call and
   responds added:false, "already in playlist (recent)"; the request that
   added issued one add-item call, or two when the first returned 401. *)
C1_SecondCallIsRecent ==
  /\ [](\A q \in Requests : req[q].resp = "added" => req[q].addCalls \in {1, 2})
  /\ [][\A r, q \in Requests :
          ( /\ req[r].pc \in {"resolve", "zones"} /\ req'[r].trackId # NoTrack
            /\ req[q].resp = "added" /\ req[q].trackId = req'[r].trackId
            /\ now - req[q].rememberedAt < RECENT_TTL_MS )
          => ( /\ req'[r].pc = "done"
               /\ req'[r].resp = "already in playlist (recent)"
               /\ req'[r].addCalls = 0 )]_vars

C1_Witness ==
  \E r1, r2 \in Requests :
    /\ r1 \in req[r2].after
    /\ req[r1].resp = "added" /\ req[r1].addCalls = 1
    /\ req[r2].resp = "already in playlist (recent)" /\ req[r2].addCalls = 0
    /\ req[r1].trackId = req[r2].trackId
    /\ now > req[r1].rememberedAt

(* C2: in every request the add-item call is issued only after the recent-add
   check and then the membership check have both answered "not present", and
   an identity enters the recent-add cache only in the step in which that
   request's add-item call succeeds. *)
C2_FlowOrder ==
  /\ [](\A r \in Requests :
          /\ req[r].pc = "add1" =>
               req[r].log = <<"recent:no", "playlist:no", "add">> /\ req[r].addCalls = 1
          /\ req[r].pc = "add2" =>
               req[r].log = <<"recent:no", "playlist:no", "add", "add">> /\ req[r].addCalls = 2
          /\ req[r].addCalls > 0 => req[r].pc \in {"add1", "add2", "done"})
  /\ [][\A x \in TrackIds :
          (recentAdds'[x] # recentAdds[x] /\ recentAdds'[x] # 0)
          => \E r \in Requests :
               /\ req[r].pc \in {"add1", "add2"} /\ req[r].trackId = x
               /\ playlist' = Append(playlist, x)
               /\ req'[r].resp = "added"
               /\ recentAdds'[x] = now]_vars

C2_Witness ==
  \E r, q \in Requests :
    /\ r # q
    /\ req[r].resp = "added" /\ recentAdds[req[r].trackId] = req[r].rememberedAt
    /\ req[q].pc \in {"awaitRefresh", "revalidate", "directScan"}

(* C3 (as claimed): whenever a check's revalidation finds a changed marker or
   total, a full scoped scan replaces the cached set before the check answers. *)
C3_ChangeAlwaysRescans ==
  [][\A r \in Requests : (AnswerStep(r) /\ SawChange(r)) => CacheReplacedInStep]_vars

(* C3 (amended): whenever a check's revalidation finds a changed (non-empty)
   marker or total, the check does not answer from the cached set as it was: it awaits
   a refresh (its own scan, started from the revalidation's meta, or the
   refresh already in flight) and answers from the cached set only in the step
   in which that refresh's completed scan has replaced it; if the refresh
   fails, the check goes on to the direct scan and the cache is left as it
   was. *)
C3_ChangeNeverAnswersStale ==
  /\ [][\A r \in Requests :
          (SawChange(r) /\ Steps(r) /\ req[r].pc \in {"revalidate", "awaitRefresh"})
          => \/ /\ req'[r].pc = "awaitRefresh"
                /\ playlistCacheRefreshPromise' # NoJob
                /\ req'[r].awaiting = playlistCacheRefreshPromise'
                /\ playlistCache' = playlistCache
             \/ /\ CacheAnswerStep(r) /\ CacheReplacedInStep
                /\ (req'[r].pc = "done") = (req[r].trackId \in playlistCache'.ids)
             \/ /\ req'[r].pc = "directMeta"
                /\ playlistCache' = playlistCache]_vars
  /\ [](\A r \in Requests :
          (req[r].reval \in {"changed", "replaced"} /\ req[r].answer # "none")
          => req[r].answer \in {"refreshed", "direct"})

C3_Witness ==
  \E r \in Requests :
    /\ req[r].reval = "changed" /\ req[r].answer = "refreshed" /\ req[r].pc = "add1"
    /\ playlistCache.ids # {}
    /\ now - playlistCache.updatedAt < PLAYLIST_CACHE_TTL_MS

(* C4: at every moment at most one refresh is in flight; a refresh call made
   while one is in flight starts no meta fetch and no scan, and everyone
   awaiting the refresh in flight settles with its outcome, in one step. *)
ActiveJobs == {j \in Requests : job[j].stage # "idle"}

CallsRefresh(r) ==
  \/ req[r].pc \in {"resolve", "zones", "revalidate"} /\ req'[r].pc = "awaitRefresh"
  \/ req[r].pc \in {"add1", "add2"} /\ req'[r].resp = "added"

C4_OneRefreshInFlight ==
  /\ [](/\ Cardinality(ActiveJobs) <= 1
        /\ ActiveJobs = IF playlistCacheRefreshPromise = NoJob THEN {}
                        ELSE {playlistCacheRefreshPromise}
        /\ \A r \in Requests :
             req[r].pc = "awaitRefresh" => req[r].awaiting = playlistCacheRefreshPromise)
  /\ [][\A r \in Requests :
          /\ (CallsRefresh(r) /\ playlistCacheRefreshPromise # NoJob)
             => /\ \A j \in Requests : [job'[j] EXCEPT !.marked = job[j].marked] = job[j]
                /\ playlistCacheRefreshPromise' = playlistCacheRefreshPromise
          /\ (req[r].pc = "awaitRefresh" /\ req'[r].pc # "awaitRefresh")
             => LET j == req[r].awaiting IN
                /\ job[j].stage # "idle" /\ job'[j].stage = "idle"
                /\ playlistCacheRefreshPromise' = NoJob
                /\ \/ req'[r].pc = "directMeta" /\ playlistCache' = playlistCache
                   \/ req'[r].pc \in {"add1", "done"} /\ RefreshSettledOk(j)
                /\ \A q \in Requests :
                     Waits(q, j) => /\ req'[q].pc # "awaitRefresh"
                                    /\ (req'[q].pc = "directMeta") = (req'[r].pc = "directMeta")]_vars

C4_Witness ==
  \E r1, r2 \in Requests :
    /\ r1 # r2
    /\ Waits(r1, r1) /\ Waits(r2, r1)
    /\ job[r1].stage = "scan" /\ job[r2].stage = "idle"

(* ------------------------------------------------------------------ *)
(* Zone selection                                                      *)
(* ------------------------------------------------------------------ *)

ActiveZones == {zones[i] : i \in {k \in DOMAIN zones : isActive(zones[k])}}

\* The coordinator's track yields a native track id.
HasNativeTrack(z) == zoneHasSpotifyTrack(z)

\* The coordinator's track is music-like but yields no native track id.
OnlyMusicLike(z) == zoneHasMusic(z) /\ ~zoneHasSpotifyTrack(z)

\* A zone with one active member, that member playing a TV input, and the
\* coordinator's URI classified as TV input.
TvOnlyZone(z) ==
  /\ isActive(z)
  /\ isTvLikeUri(coordinatorOf(z).state.currentTrack.uri)
  /\ Cardinality({i \in DOMAIN z.members :
                    z.members[i].state.playbackState = "PLAYING"}) = 1
  /\ \A i \in DOMAIN z.members :
        z.members[i].state.playbackState = "PLAYING"
          => isTvLikeUri(z.members[i].state.currentTrack.uri)

\* C5: for one snapshot, preferred room and mode, the zone pickActiveZone
\* returns is the same whatever the order in which the zones are listed.
C5_OrderIndependent == Cardinality(selections) <= 1

\* C6: with exactly two active zones, neither containing the preferred room,
\* one whose coordinator track yields a native track id and one that is only
\* music-like, the zone selected is the one with the native track id.
C6_NativeTrackWins ==
  selected.called =>
    \A a, b \in ActiveZones :
      ( /\ ActiveZones = {a, b}
        /\ a # b
        /\ HasNativeTrack(a)
        /\ OnlyMusicLike(b)
        /\ ~HasRoom(a, preferredRoom)
        /\ ~HasRoom(b, preferredRoom) )
      => selected.zone = a

\* C6 happened: the native-track zone was selected although the zone that is
\* only music-like is listed first and sorts first.
C6_Witness ==
  /\ selected.called
  /\ Len(zones) = 2
  /\ ActiveZones = {zones[1], zones[2]}
  /\ OnlyMusicLike(zones[1])
  /\ HasNativeTrack(zones[2])
  /\ localeCompare(zoneSortKey(zones[1]), zoneSortKey(zones[2])) < 0
  /\ ~HasRoom(zones[1], preferredRoom)
  /\ ~HasRoom(zones[2], preferredRoom)
  /\ selected.zone = zones[2]

\* C7 as stated: under mode "music" a TV-only zone is never returned; under
\* mode "any" it is returned when no other zone is active.
C7_TvNeverUnderMusic ==
  selected.called =>
    /\ mode = "music" => ~TvOnlyZone(selected.zone)
    /\ \A z \in ActiveZones :
         (mode = "any" /\ TvOnlyZone(z) /\ ActiveZones = {z}) => selected.zone = z

\* C7, amended: under mode "music" a TV-only zone is returned only as the last
\* resort, when no active zone is music-like; whenever some active zone is
\* music-like the zone returned is music-like. Under mode "any" the TV-only
\* zone is returned when no other zone is active.
C7_TvOnlyAsLastResort ==
  selected.called =>
    /\ (mode = "music" /\ TvOnlyZone(selected.zone))
         => \A z \in ActiveZones : ~zoneHasMusic(z)
    /\ (mode = "music" /\ \E z \in ActiveZones : zoneHasMusic(z))
         => zoneHasMusic(selected.zone)
    /\ \A z \in ActiveZones :
         (mode = "any" /\ TvOnlyZone(z) /\ ActiveZones = {z}) => selected.zone = z

\* C7 happened: a TV-only zone in the preferred room was passed over under
\* mode "music" for a music-like zone elsewhere.
C7_Witness ==
  /\ selected.called
  /\ mode = "music"
  /\ \E z \in ActiveZones : TvOnlyZone(z) /\ HasRoom(z, preferredRoom)
  /\ zoneHasMusic(selected.zone)
  /\ ~HasRoom(selected.zone, preferredRoom)

(* ------------------------------------------------------------------ *)
(* Scan boundaries                                                     *)
(* ------------------------------------------------------------------ *)

\* C9: for every declared total >= 0 and every scope, the first offset a scan
\* requests is 0 under scope "all" and max(0, total - N) under scope "last N",
\* and every page request has offset < total, limit <= 100 and
\* offset + limit <= total, in the cache-refresh scan and in the direct scan.
C9_ScanWithinTotal ==
  /\ scan.first # NoOffset =>
       scan.first = IF scan.window = WindowAll THEN 0
                    ELSE Max(0, scan.total - scan.window)
  /\ scan.pc = "page" =>
       /\ scan.first # NoOffset
       /\ scan.offset < scan.total
       /\ scan.limit <= 100
       /\ scan.offset + scan.limit <= scan.total

\* C9 happened: total 500, window 250, the direct scan started at 250 and its
\* last page request asks for the 50 items that end at 500.
C9_Witness ==
  /\ scan.kind = "direct"
  /\ scan.total = 500
  /\ scan.window = 250
  /\ scan.first = 250
  /\ scan.pc = "page"
  /\ scan.offset = 450
  /\ scan.limit = 50

(* ------------------------------------------------------------------ *)
(* 401 handling                                                        *)
(* ------------------------------------------------------------------ *)

\* C10: for every account-API call under the 401 handling (add-item, playback
\* query, JSON fetches), a 401 response clears the token cache, causes exactly
\* one forced token refresh and exactly one re-issue of the call, and a 401 to
\* the re-issued call is surfaced with no further attempt.
C10_One401OneReissue ==
  call.saw401 =>
    /\ call.after401 <= 1
    /\ call.cleared = 1
    /\ call.forced = 1
    /\ (call.pc = "done" /\ call.outcome # "token refresh failed") => call.after401 = 1

(* ------------------------------------------------------------------ *)
(* Grouping                                                            *)
(* ------------------------------------------------------------------ *)

\* The rooms a group request has to join, from its inputs and the topology.
RoomsToJoin ==
  SelectSeq(grp.rooms, LAMBDA r : r # grp.coordinatorName /\ r \notin grp.existing)

\* The join calls that have gone out, in order.
JoinsSent == SelectSeq(grp.sent, LAMBDA c : c \notin {"zones", "volume"})

\* The rooms whose join call came back with the given outcome, in call order.
RECURSIVE JoinsThat(_, _)
JoinsThat(n, outcome) ==
  IF n = 0 THEN <<>>
  ELSE IF grp.outcomes[n] = outcome
    THEN Append(JoinsThat(n - 1, outcome), JoinsSent[n])
    ELSE JoinsThat(n - 1, outcome)

\* C8: a failed join call does not stop the join calls for the rooms
\* requested after it and triggers no undo of earlier joins: once the ok
\* response is sent, a join call has gone out for every room to join, in
\* request order, and nothing but the zones, join and volume calls; joined
\* lists exactly the rooms whose join succeeded, in request order; failed
\* lists each room whose join failed, with its error; the result is ok:true.
C8_PartialJoinReported ==
  (grp.pc = "done" /\ grp.res.status = 200) =>
    /\ grp.res.ok
    /\ JoinsSent = RoomsToJoin
    /\ Len(grp.outcomes) = Len(JoinsSent)
    /\ grp.res.joined = JoinsThat(Len(grp.outcomes), "ok")
    /\ [i \in DOMAIN grp.res.failed |-> grp.res.failed[i].room]
         = JoinsThat(Len(grp.outcomes), "failed")
    /\ \A i \in DOMAIN grp.res.failed : grp.res.failed[i].error # ""

\* C8 happened: of three rooms joined to a coordinator outside the request,
\* the second failed and the first and third are reported as joined.
C8_Witness ==
  /\ grp.pc = "done"
  /\ grp.res.ok
  /\ grp.rooms = <<"Den", "den", "Kitchen">>
  /\ grp.res.joined = <<"Den", "Kitchen">>
  /\ Len(grp.res.failed) = 1
  /\ grp.res.failed[1].room = "den"

(* ------------------------------------------------------------------ *)
(* Credential manager                                                  *)
(* ------------------------------------------------------------------ *)

\* The cached token is missing or within the skew of its expiry.
TokenStale ==
  cachedAccessToken = 0 \/ callNow >= cachedAccessTokenExpiresAt - ACCESS_TOKEN_SKEW_MS

TokenCacheUnchanged ==
  /\ cachedAccessToken' = cachedAccessToken
  /\ cachedAccessTokenExpiresAt' = cachedAccessTokenExpiresAt
  /\ exchanges' = exchanges

\* C11: getting a token performs a refresh exchange if and only if
\* forceRefresh is set, or no token is cached, or the time is at or past the
\* cached expiry minus the 30-second skew; otherwise the cached token is
\* returned with no upstream call and the cache is left unchanged.
C11_ExchangeIffStale ==
  [][ /\ calls' = calls + 1 =>
           /\ (call'.pc = "token") <=> TokenStale
           /\ ~TokenStale => /\ call'.pc = "http"
                             /\ call'.token = cachedAccessToken
                             /\ TokenCacheUnchanged
      /\ call'.forced = call.forced + 1 => call'.pc = "forceToken"
      /\ exchanges' # exchanges => call.pc \in {"token", "forceToken"} ]_vars

\* C11 happened: a second call, made after time has passed but before the
\* skewed expiry, went out with the token the first call had fetched.
C11_Witness ==
  /\ calls = 2
  /\ exchanges = 1
  /\ call.pc = "http"
  /\ call.issued = 1
  /\ call.token = cachedAccessToken
  /\ cachedAccessToken = 1
  /\ callNow > CallTickMs
  /\ callNow < cachedAccessTokenExpiresAt - ACCESS_TOKEN_SKEW_MS


(* ------------------------------------------------------------------ *)
(* The add route's resolution                                          *)
(* ------------------------------------------------------------------ *)

\* The account's playback query reports a currently playing track.
ReportsPlayingTrack(a) ==
  /\ a.status = 200
  /\ a.is_playing
  /\ a.currently_playing_type = "track"
  /\ a.id \in TrackIds

\* r's handler starts fetching the zone topology in this step.
FetchesZones(r) == req[r].pc # "zones" /\ req'[r].pc = "zones"

(* C12: a request whose playback query reported a currently playing track
   carries that track's id and source "spotify" and is never waiting for, nor
   has it been answered from, the zone topology; a handler starts fetching the
   zone topology only as its playback query returns without a playing track,
   and that is the only step that makes the source "sonos". *)
C12_AccountTrackWins ==
  /\ [](\A r \in Requests :
          ReportsPlayingTrack(req[r].playback)
            => /\ req[r].source = "spotify"
               /\ req[r].trackId = req[r].playback.id
               /\ req[r].pc # "zones"
               /\ req[r].seen = NoSeen)
  /\ [][\A r \in Requests :
          /\ FetchesZones(r) => /\ req[r].pc = "resolve"
                                /\ req'[r].playback \in PlaybackAnswers
                                /\ ~ReportsPlayingTrack(req'[r].playback)
          /\ (req[r].source # "sonos" /\ req'[r].source = "sonos") <=> FetchesZones(r)
          /\ req[r].source = "spotify" => req'[r].source = "spotify"]_vars

C12_Witness ==
  \E r, q \in Requests :
    /\ ReportsPlayingTrack(req[r].playback)
    /\ req[r].resp = "added" /\ req[r].source = "spotify" /\ req[r].trackId = "Y"
    /\ req[q].source = "sonos" /\ req[q].resp = "added" /\ req[q].trackId = "X"


\* The Sonos fallback turns r down in this step.
TurnedDown(r) == req[r].pc = "zones" /\ req'[r].seen # NoSeen

\* The answer the three cases call for, from what the fallback decided on.
TurnDownReason(sn) ==
  IF sn.zone = NoZone THEN "Nothing playing (Spotify and Sonos empty)"
  ELSE IF sn.mode # "any" /\ ~isMusicLikeTrack(coordinatorTrack(sn.zone))
    THEN "Active zone is TV/line-in; ignoring in music mode"
  ELSE "Current item is not a Spotify track (or no URI)"

TurnDownReasons ==
  {"Nothing playing (Spotify and Sonos empty)",
   "Active zone is TV/line-in; ignoring in music mode",
   "Current item is not a Spotify track (or no URI)"}

(* C13: the step in which the Sonos fallback returns either goes on with a
   native track id, or fails, or turns the request down; it turns it down with
   no zone selected, or in a mode other than "any" with a coordinator track
   that is not music-like, or with a track URI that yields no native id, and
   then answers added:false with the reason of that case in that same step,
   with no membership check started, no add-item call then or ever, and the
   recent-add cache, the playlist cache and the refresh in flight unchanged. *)
C13_NothingToAdd ==
  /\ [][\A r \in Requests :
          /\ TurnedDown(r)
               => /\ \/ req'[r].seen.zone = NoZone
                     \/ /\ req'[r].seen.mode # "any"
                        /\ ~isMusicLikeTrack(coordinatorTrack(req'[r].seen.zone))
                     \/ extractSpotifyTrackId(coordinatorTrack(req'[r].seen.zone).uri)
                          = NoTrack
                  /\ req'[r].pc = "done"
                  /\ req'[r].resp = TurnDownReason(req'[r].seen)
                  /\ req'[r].trackId = NoTrack /\ req'[r].addCalls = 0
                  /\ UNCHANGED <<recentAdds, playlistCache, playlistCacheRefreshPromise,
                                 job>>
          /\ (req[r].pc = "zones" /\ req'[r].pc # "zones" /\ ~TurnedDown(r))
               => \/ req'[r].resp = "error"
                  \/ req'[r].source = "sonos" /\ req'[r].trackId \in TrackIds]_vars
  /\ [](\A r \in Requests :
          req[r].resp \in TurnDownReasons
            => /\ req[r].pc = "done" /\ req[r].seen # NoSeen
               /\ req[r].addCalls = 0 /\ req[r].trackId = NoTrack)

C13_Witness ==
  \E r, q \in Requests :
    /\ req[r].resp = "Active zone is TV/line-in; ignoring in music mode"
    /\ req[r].seen.mode = "music"
    /\ req[q].resp = "Current item is not a Spotify track (or no URI)"
    /\ req[q].seen.mode = "any"
    /\ coordinatorTrack(req[q].seen.zone).uri = UriTv
    /\ r \in req[q].after
    /\ \A x \in TrackIds : recentAdds[x] = 0


(* ------------------------------------------------------------------ *)
(* The membership check's fallback                                     *)
(* ------------------------------------------------------------------ *)

\* r is in playlistHasTrackCached, awaiting its meta fetch or a refresh.
InCachedPath(r) == req[r].pc \in {"revalidate", "awaitRefresh"}

\* r is in playlistHasTrackDirect.
InDirectScan(r) == req[r].pc \in {"directMeta", "directScan"}

\* r's handler leaves the membership check with an answer in this step.
CheckAnswers(r) == req'[r].pc = "add1" \/ req'[r].resp = "already in playlist"

(* C14: a request in the cached path stays in it, or leaves the check with an
   answer from the cached or the refreshed set, or is moved to the direct
   scan's first call with its track and the caches as they were: it never
   answers 500 from there. The direct scan starts where a refresh of the same
   window would start and ends at the total it fetched, and it answers from
   the pages it reads or fails; a membership check fails only from there. *)
C14_FallsBackToDirect ==
  [][\A r \in Requests :
       /\ InCachedPath(r)
            => \/ InCachedPath(r)' /\ req'[r].resp = "none"
               \/ CheckAnswers(r) /\ req'[r].answer \in {"cached", "refreshed"}
               \/ /\ req'[r].resp = "already in playlist"
                  /\ req[r].trackId \in playlistCache'.ids
               \/ /\ req'[r].pc = "directMeta" /\ req'[r].resp = "none"
                  /\ req'[r].trackId = req[r].trackId
                  /\ req'[r].addCalls = 0
                  /\ UNCHANGED <<playlistCache, recentAdds>>
       /\ (req[r].pc = "directMeta" /\ req'[r].pc = "directScan")
            => /\ req'[r].dOffset = scanStartOffset(dedupeWindow, Len(playlist))
               /\ req'[r].dEnd = Len(playlist)
       /\ (InDirectScan(r) /\ ~InDirectScan(r)')
            => \/ req'[r].resp = "error"
               \/ /\ req'[r].resp = "already in playlist"
                  /\ req[r].trackId \in Range(playlist)
               \/ /\ req'[r].pc = "add1" /\ req'[r].answer = "direct"
                  /\ \A i \in (scanStartOffset(dedupeWindow, req[r].dEnd) + 1)
                                ..Min(req[r].dEnd, Len(playlist)) :
                       req[r].pc = "directScan" => playlist[i] # req[r].trackId
       /\ (req[r].resp = "none" /\ req'[r].resp = "error")
            => req[r].pc \in {"resolve", "zones", "directMeta", "directScan",
                              "add1", "add2"}]_vars

\* A request fell back to the direct scan, which found its track outside the
\* window and went on to add it, while another failed in its direct scan.
C14_Witness ==
  \E r, q \in Requests :
    /\ req[r].pc = "add1" /\ req[r].answer = "direct"
    /\ Len(playlist) = 2 /\ playlist[1] = req[r].trackId
    /\ req[q].resp = "error" /\ req[q].trackId # NoTrack /\ req[q].addCalls = 0


(* ------------------------------------------------------------------ *)
(* Responses and rejections                                            *)
(* ------------------------------------------------------------------ *)

\* The responses of the add route (res.json with added, or the 500 of 632).
AddResponses ==
  {"added", "already in playlist (recent)", "already in playlist", "error"}
    \cup TurnDownReasons

\* The refresh in flight has someone to take its rejection: a request awaiting
\* it, or the handler attached to the call that started it.
RejectionHandled(j) == job[j].caught \/ \E r \in Requests : Waits(r, j)

(* C15: a request has sent one response exactly when its handler has ended and
   none before, and what it sent stays as it is; the add route's response is
   one of its JSON answers, the group route's is 200 with ok:true, or 400
   (before any upstream call) or 500 (after one) with ok:false and nothing
   else reported; a handler awaiting a refresh
   awaits the one in flight, so that it is answered when that settles; and
   every refresh in flight has someone to take its rejection. *)
C15_OneResponseNoCrash ==
  /\ [](\A r \in Requests :
          /\ req[r].responses = IF req[r].pc = "done" THEN 1 ELSE 0
          /\ (req[r].pc = "done") <=> (req[r].resp # "none")
          /\ req[r].resp \in AddResponses \cup {"none"}
          /\ (req[r].pc = "awaitRefresh")
               => /\ req[r].awaiting = playlistCacheRefreshPromise
                  /\ req[r].awaiting \in Requests
                  /\ job[req[r].awaiting].stage # "idle")
  /\ [](\A j \in Requests : (job[j].stage # "idle") => RejectionHandled(j))
  /\ [](/\ grp.responses = IF grp.pc = "done" THEN 1 ELSE 0
        /\ (grp.pc = "done") <=> (grp.res # NoResponse)
        /\ (grp.pc = "done")
             => /\ grp.res.status \in {200, 400, 500}
                /\ grp.res.ok <=> (grp.res.status = 200)
                /\ (~grp.res.ok)
                     => (grp.res = [NoResponse EXCEPT !.status = grp.res.status]))
  /\ [][/\ \A r \in Requests : (req[r].pc = "done") => (req'[r] = req[r])
        /\ (grp.pc = "done") => (grp' = grp)
        /\ (grp.pc = "idle" /\ grp'.pc = "done") => (grp'.res.status = 400)
        /\ (grp.pc # "idle" /\ grp'.pc = "done") => (grp'.res.status \in {200, 500})]_vars

\* A request has added its track and answered while the refresh it started in
\* the background is still in flight, with nobody awaiting it.
C15_Witness ==
  \E r \in Requests :
    /\ req[r].resp = "added" /\ job[r].stage = "scan" /\ job[r].caught
    /\ \A q \in Requests : ~Waits(q, r)
    /\ \E q \in Requests : req[q].resp = "error"

\* A group request has answered 500 after its topology fetch failed.
C15_WitnessGroup ==
  grp.pc = "done" /\ grp.res.status = 500 /\ grp.sent = <<"zones">> /\ grp.responses = 1


(* ------------------------------------------------------------------ *)
(* The group route's join and volume calls                             *)
(* ------------------------------------------------------------------ *)

\* The join calls that have gone out and have not come back.
JoinsOutstanding == Len(JoinsSent) - Len(grp.outcomes)

(* C16: at every moment of a group request at most one of its join calls is
   outstanding, and one is exactly while the handler awaits joinRoomTo; the
   join calls that have gone out are, in order, the first of the rooms to
   join taken in the order they were requested. *)
C16_JoinsOneAtATime ==
  /\ JoinsOutstanding \in {0, 1}
  /\ (JoinsOutstanding = 1) <=> (grp.pc = "join")
  /\ Len(JoinsSent) <= Len(RoomsToJoin)
  /\ JoinsSent = SubSeq(RoomsToJoin, 1, Len(JoinsSent))

\* The third join call is outstanding after the first failed and the second
\* succeeded.
C16_Witness ==
  /\ grp.pc = "join"
  /\ grp.rooms = <<"Kitchen", "den", "Den">>
  /\ JoinsSent = grp.rooms
  /\ grp.outcomes = <<"failed", "ok">>


\* The fetched topology shows room in a zone that contains the coordinator.
GroupedWithCoordinator(room) ==
  \E i \in DOMAIN zones :
    /\ \E k \in DOMAIN zones[i].members :
         zones[i].members[k].roomName = grp.coordinatorName
    /\ \E k \in DOMAIN zones[i].members : zones[i].members[k].roomName = room

\* A requested room that is neither the coordinator nor grouped with it.
MustJoin(room) == room # grp.coordinatorName /\ ~GroupedWithCoordinator(room)

(* C17: no join call of a group request names the resolved coordinator or a
   room the fetched topology shows in the coordinator's zone; and once the ok
   response is sent, the join calls that went out are exactly the other
   requested rooms, one call for each time such a room was requested. *)
C17_JoinsOnlyOutsiders ==
  /\ \A i \in DOMAIN JoinsSent : MustJoin(JoinsSent[i])
  /\ (grp.pc = "done" /\ grp.res.status = 200)
       => JoinsSent = SelectSeq(grp.rooms, MustJoin)

\* Of three requested rooms one is the coordinator, one is already in its
\* zone and one was joined.
C17_Witness ==
  /\ grp.pc = "done" /\ grp.res.status = 200
  /\ Len(grp.rooms) = 3
  /\ Len(JoinsSent) = 1
  /\ \E i \in DOMAIN grp.rooms : grp.rooms[i] = grp.coordinatorName
  /\ \E i \in DOMAIN grp.rooms :
       grp.rooms[i] # grp.coordinatorName /\ GroupedWithCoordinator(grp.rooms[i])


\* The handler has resolved its coordinator.
CoordinatorResolved == grp.coordinatorName # ""

\* What active-zone selection returns for the request's preferred room and mode.
GroupSelection == pickActiveZone(zones, preferredRoom, mode)

(* C18: once a group request has resolved its coordinator, it is the
   coordinator of the zone that active-zone selection returns for the
   request's preferred room and mode when it returns one, the preferred room
   when it returns none and a preferred room is given, and the first
   requested room otherwise; and every request that gets past the topology
   fetch has resolved one. *)
C18_CoordinatorChoice ==
  /\ CoordinatorResolved
       => grp.coordinatorName =
            IF GroupSelection # NoZone THEN coordinatorOf(GroupSelection).roomName
            ELSE IF preferredRoom # "" THEN preferredRoom
            ELSE grp.rooms[1]
  /\ (grp.pc \in {"join", "settle", "volumes"} \/ grp.res.status = 200)
       => CoordinatorResolved

\* The selected zone's coordinator is neither the preferred room nor the
\* first requested room, and rooms were joined to it.
C18_Witness ==
  /\ grp.pc = "done" /\ grp.res.status = 200
  /\ GroupSelection # NoZone
  /\ preferredRoom = "Den"
  /\ grp.res.coordinator \notin {preferredRoom, grp.rooms[1]}
  /\ grp.res.joined # <<>>

\* No zone is selected and the preferred room, which the topology does not
\* show, is the coordinator.
C18_WitnessPreferred ==
  /\ grp.pc = "done" /\ grp.res.status = 200
  /\ GroupSelection = NoZone
  /\ preferredRoom = "Office" /\ grp.res.coordinator = "Office"

\* No zone is selected, no preferred room is given, and the first requested
\* room is the coordinator.
C18_WitnessFirstRoom ==
  /\ grp.pc = "done" /\ grp.res.status = 200
  /\ GroupSelection = NoZone
  /\ preferredRoom = "" /\ grp.res.coordinator = grp.rooms[1]


\* The rooms named in the volumes input of the request.
VolumeRoomsNamed == DOMAIN grp.volumes.levels

\* The join loop of the request is over.
JoinsOver == grp.pc \in {"volumes"} \/ (grp.pc = "done" /\ grp.res.status = 200)

(* C19: once the join loop of a group request is over, whatever its join
   calls came to, a volume call has gone out for every room named in the
   volumes input, all of them before any has come back; when the response is
   sent each such room is in exactly one of volumes_set and volumes_failed;
   and a request that got past the topology fetch and the coordinator's
   resolution answers ok:true whatever its volume calls came to. *)
C19_VolumeForEveryRoom ==
  /\ JoinsOver => grp.volumeCalls = VolumeRoomsNamed
  /\ (grp.pc = "volumes") => (grp.pending \cup grp.volumes_set \cup grp.volumes_failed
                               = VolumeRoomsNamed)
  /\ (grp.pc = "done" /\ grp.res.status = 200)
       => /\ grp.res.volumes_set \cup grp.res.volumes_failed = VolumeRoomsNamed
          /\ grp.res.volumes_set \cap grp.res.volumes_failed = {}
  /\ (grp.volumes_failed # {}) => (grp.res.status # 500)

\* The same for the requests whose volumes input is "Room:Level" text with
\* numeric levels: it holds there.
C19_TextVolumes ==
  (grp.volumes.form = "text" /\ \A r \in VolumeRoomsNamed : ~Number(grp.volumes.levels[r]).nan)
    => C19_VolumeForEveryRoom

\* Two volume calls were outstanding together after a failed join; one
\* succeeded and one failed, and the answer is ok:true.
C19_TextWitness ==
  /\ grp.pc = "done" /\ grp.res.ok
  /\ grp.res.failed # <<>>
  /\ grp.res.volumes_set = {"Den"} /\ grp.res.volumes_failed = {"Kitchen"}
  /\ Len(SelectSeq(grp.sent, LAMBDA c : c = "volume")) = 2

\* The invocation in progress is one of spotifyRequest, the wrapper
\* addTrackToPlaylist issues its add-item call through (258-266).
InAddItemCall == call.wrapper = "spotifyRequest" /\ call.pc # "idle"

(* C20: one invocation of the add-track operation issues at most two add-item
   calls, and a second one only after the first came back 401; an attempt that
   comes back with anything else, or throws, ends the invocation in that step,
   so an invocation that never saw a 401 issued one call at most. *)
C20_AtMostTwoAddCalls ==
  /\ [](InAddItemCall =>
          /\ call.issued <= 2
          /\ (call.issued = 2) => (call.saw401 /\ call.after401 = 1 /\ call.forced = 1)
          /\ (~call.saw401) => (call.issued <= 1)
          /\ (call.outcome \in {"error", "threw"} /\ ~call.saw401) => (call.issued = 1))
  /\ [][(InAddItemCall /\ call.pc = "http" /\ call' # call)
          => \/ call'.pc = "done" /\ call'.issued = call.issued
             \/ /\ call.issued = 1 /\ ~call.saw401 /\ call'.saw401
                /\ call'.pc = "forceToken"]_vars

\* The first add-item call came back 401, the token was exchanged again and
\* the second call succeeded.
C20_Witness ==
  /\ InAddItemCall /\ call.pc = "done" /\ call.outcome = "ok"
  /\ call.issued = 2 /\ call.saw401

\* An add-item call came back with a server error, or threw, and the
\* invocation ended after that one call.
C20_WitnessSingle ==
  /\ InAddItemCall /\ call.pc = "done" /\ call.outcome \in {"error", "threw"}
  /\ call.issued = 1 /\ ~call.saw401

\* The check the cache answered last, since the last tick or remembering.
LastCheck == recentLog.check
Checked == LastCheck.id # NoTrack
LastRemembered(x) == recentLog.last[x]

(* C21: an identity remembered at time t (the time it was remembered last:
   remembering overwrites the entry) is reported as recently added by every
   check made at a time in [t, t + 10 minutes) and by no check made at or
   after t + 10 minutes, after which the cache holds no entry for it; an
   identity that was never remembered is never reported. *)
C21_ReportedWithinTtl ==
  /\ \A x \in TrackIds : recentAdds[x] # 0 => recentAdds[x] = LastRemembered(x)
  /\ Checked =>
       LET x == LastCheck.id
           t == LastRemembered(x)
       IN /\ (t = 0) => ~LastCheck.answer
          /\ (t # 0 /\ LastCheck.at >= t /\ LastCheck.at < t + RECENT_TTL_MS)
               => LastCheck.answer /\ recentAdds[x] = t
          /\ (t # 0 /\ LastCheck.at >= t + RECENT_TTL_MS)
               => ~LastCheck.answer /\ recentAdds[x] = 0

\* A check made exactly ten minutes after the remembering answers no and
\* leaves no entry.
C21_Witness ==
  /\ Checked /\ ~LastCheck.answer
  /\ LastRemembered(LastCheck.id) # 0
  /\ LastCheck.at = LastRemembered(LastCheck.id) + RECENT_TTL_MS
  /\ recentAdds[LastCheck.id] = 0

\* A check made a millisecond before that answers yes.
C21_WitnessInside ==
  /\ Checked /\ LastCheck.answer
  /\ LastCheck.at = LastRemembered(LastCheck.id) + RECENT_TTL_MS - 1

(* C22: every accepted request to the add route and to the group route
   eventually sends its response, even if an upstream never answers one of the
   request's calls. *)
C22_EveryRequestResponds ==
  /\ \A r \in Requests : (req[r].pc # "idle") ~> (req[r].pc = "done")
  /\ (grp.pc # "idle") ~> (grp.pc = "done")

\* What does hold: a request waiting for the playlist's meta or for a page,
\* which are fetched under the abort signal, does not wait forever.
PageWaitEnds ==
  \A r \in Requests :
    /\ (req[r].pc = "revalidate") ~> (req[r].pc # "revalidate")
    /\ (job[r].stage # "idle") ~> (job[r].stage = "idle")

\* r is in its membership check.
InMembershipCheck(r) == InCachedPath(r) \/ InDirectScan(r)

\* Both requests have an add-item call for the same identity outstanding.
BothAdding ==
  /\ req["r1"].pc \in {"add1", "add2"} /\ req["r2"].pc \in {"add1", "add2"}
  /\ req["r1"].trackId = req["r2"].trackId

(* C23: nothing protects two concurrent requests for the same identity from
   each other. While the playlist is as it was at the start (empty, nothing
   added yet) a request that leaves its membership check without an error
   issues its add-item call, also when the other request's add-item call for
   the same identity is outstanding; so both can pass both checks before
   either add completes (the witness). *)
C23_BothPassBothAdd ==
  [][\A r \in Requests :
       ( /\ InMembershipCheck(r) /\ ~InMembershipCheck(r)'
         /\ snapshot = 1 /\ playlist = <<>>
         /\ req'[r].resp # "error" )
       => ( /\ req'[r].pc = "add1" /\ req'[r].addCalls = 1
            /\ req'[r].log = <<"recent:no", "playlist:no", "add">> )]_vars

\* Both requests resolved to the same identity, found it in neither tier,
\* passed both checks and have their add-item calls outstanding together.
C23_Witness ==
  /\ BothAdding
  /\ req["r1"].absent /\ req["r2"].absent
  /\ req["r1"].addCalls >= 1 /\ req["r2"].addCalls >= 1
  /\ recentAdds[req["r1"].trackId] = 0
  /\ req["r1"].trackId \notin Range(playlist)

\* Both adds then succeeded: the playlist holds the identity twice.
C23_WitnessTwice ==
  /\ req["r1"].resp = "added" /\ req["r2"].resp = "added"
  /\ req["r1"].trackId = req["r2"].trackId
  /\ req["r1"].absent /\ req["r2"].absent
  /\ Len(SelectSeq(playlist, LAMBDA x : x = req["r1"].trackId)) >= 2

\* The refresh bodies in their page loop (scanPlaylistRange from 388) and the
\* requests in the page loop of their own direct scan (408-420).
RefreshScans == {j \in Requests : job[j].stage = "scan"}
DirectScans == {r \in Requests : req[r].pc = "directScan"}
RunningScans == Cardinality(RefreshScans) + Cardinality(DirectScans)

(* C24 (as claimed): at any moment at most one paginated playlist scan is
   running, cache-refresh scans and direct fallback scans counted together. *)
C24_OneScanAtATime == RunningScans <= 1

(* C24 (amended): at any moment at most one cache-refresh scan is running;
   the direct fallback scans are not coalesced: a request in one awaits no
   refresh and scans with its own offsets, next to whatever else is running. *)
C24_OneRefreshScan ==
  /\ Cardinality(RefreshScans) <= 1
  /\ \A r \in DirectScans :
       /\ req[r].awaiting = NoJob
       /\ req[r].dOffset < req[r].dEnd

\* A refresh scan and a direct scan are in their page loops together.
C24_Witness == RefreshScans # {} /\ DirectScans # {}

\* Two direct scans are in their page loops together.
C24_WitnessTwoDirect == Cardinality(DirectScans) = 2

\* A zone with a member that is playing or transitioning.
PlayingOrTransitioning(zone) ==
  \E i \in DOMAIN zone.members :
    zone.members[i].state.playbackState \in {"PLAYING", "TRANSITIONING"}

(* C25: a zone counts as active when a member of it is playing or
   transitioning: the zone pickActiveZone returns has such a member, and it
   returns none exactly when no zone of the snapshot has one. *)
C25_TransitioningIsActive ==
  selected.called =>
    /\ (selected.zone = NoZone) <=> (\A i \in DOMAIN zones : ~PlayingOrTransitioning(zones[i]))
    /\ (selected.zone # NoZone) => PlayingOrTransitioning(selected.zone)

\* What does hold: none is returned exactly when no zone has a playing member.
PlayingIsActive ==
  selected.called =>
    ((selected.zone = NoZone) <=> (\A i \in DOMAIN zones : ~isActive(zones[i])))

\* The active zones that pass the mode filter, those of them that hold the
\* preferred room, and those of them with a native track.
ModeFiltered == {z \in ActiveZones : mode = "any" \/ zoneHasMusic(z)}
PreferredZones == {z \in ModeFiltered : preferredRoom # "" /\ HasRoom(z, preferredRoom)}
NativeZones == {z \in ModeFiltered : HasNativeTrack(z)}

(* C26: when a preferred room is given and an active zone that passes the mode
   filter has it as a member, the selected zone is such a zone, whatever the
   other zones carry; otherwise the selected zone is an active mode-filtered
   zone with a native track id if there is one, else an active mode-filtered
   zone if there is one, else an active zone if there is one, else none. *)
C26_TierOrder ==
  selected.called =>
    IF PreferredZones # {} THEN selected.zone \in PreferredZones
    ELSE IF NativeZones # {} THEN selected.zone \in NativeZones
    ELSE IF ModeFiltered # {} THEN selected.zone \in ModeFiltered
    ELSE IF ActiveZones # {} THEN selected.zone \in ActiveZones
    ELSE selected.zone = NoZone

\* The zone holding the preferred room was selected with a track that is only
\* music-like, although another active zone carries a native track id.
C26_Witness ==
  /\ selected.called
  /\ selected.zone \in PreferredZones
  /\ OnlyMusicLike(selected.zone)
  /\ \E z \in NativeZones : z # selected.zone /\ ~HasRoom(z, preferredRoom)

\* The preferred room's zone is active but fails the mode filter: the native
\* tier decided.
C26_WitnessFallThrough ==
  /\ selected.called /\ preferredRoom # ""
  /\ \E z \in ActiveZones : HasRoom(z, preferredRoom)
  /\ PreferredZones = {}
  /\ selected.zone \in NativeZones

\* Nothing passes the mode filter: the last tier decided.
C26_WitnessLastTier ==
  /\ selected.called /\ ModeFiltered = {} /\ selected.zone \in ActiveZones

\* A JSON fetch has ended in an error after failing on every attempt with
\* something other than a 401.
JsonFetchGaveUp ==
  /\ call.wrapper = "fetchSpotifyJsonWithRetry"
  /\ call.pc = "done" /\ call.outcome \in {"error", "threw"}
  /\ ~call.saw401

\* 200 ms doubling, n waits.
DoublingWaits(n) == [i \in 1..n |-> BACKOFF_BASE_MS * Pow2(i - 1)]

(* C27 (as claimed): a JSON fetch that fails on every attempt with a timeout
   or a transient error is attempted 3 times in total, with waits of 200 ms
   doubling between the attempts, before the error is surfaced. *)
C27_ThreeAttempts ==
  JsonFetchGaveUp => (call.issued = 3 /\ call.waits = DoublingWaits(2))

(* C27 (amended): such a fetch is attempted retries + 1 times, the first
   attempt and then `retries` retries, with a wait before each retry that
   starts at 200 ms and doubles: 4 attempts and waits of 200, 400, 800 ms with
   the default of 3 retries, 3 attempts and waits of 200, 400 ms for the track
   lookup, which asks for 2 retries. *)
C27_RetriesPlusOne ==
  /\ JsonFetchGaveUp =>
       /\ call.issued = call.retries + 1
       /\ call.waits = DoublingWaits(call.retries)
  /\ (call.wrapper = "fetchSpotifyJsonWithRetry" /\ ~call.saw401) =>
       /\ call.issued <= call.retries + 1
       /\ call.retries \in {DEFAULT_RETRIES, TRACK_LOOKUP_RETRIES}

\* A fetch with the default retries gave up after four attempts.
C27_Witness ==
  /\ JsonFetchGaveUp /\ call.retries = DEFAULT_RETRIES
  /\ call.issued = 4 /\ call.waits = <<200, 400, 800>>

\* An attempt comes back with a 4xx status other than 401 in this step.
Rejected4xx == call.pc = "http" /\ call' # call /\ call'.last = 403

(* C28: a response with a 4xx status other than 401 is surfaced at once: the
   call that received it is not issued again and no backoff wait precedes the
   error. *)
C28_RejectedNotRetried ==
  [][Rejected4xx => /\ call'.pc = "done" /\ call'.outcome = "error"
                    /\ call'.waits = call.waits]_vars

\* What does hold: so it is for the calls made through spotifyRequest, the
\* add-item call among them.
RejectedAddNotRetried ==
  [][(Rejected4xx /\ call.wrapper = "spotifyRequest")
       => /\ call'.pc = "done" /\ call'.outcome = "error"
          /\ call'.waits = <<>>]_vars

\* A required credential or the playlist id is not configured.
ConfigMissing ==
  ~cfgRun.cfg.refreshToken \/ ~cfgRun.cfg.client \/ ~cfgRun.cfg.playlistId

(* C29: when a required credential or the destination playlist id is not
   configured, the add flow fails fast with a 503 or 400 response, without
   issuing any upstream call and without any retry. *)
C29_ConfigMissingFailsFast ==
  ConfigMissing =>
    /\ cfgRun.sent = <<>> /\ cfgRun.waits = <<>>
    /\ (cfgRun.pc = "done") => (cfgRun.status \in {503, 400})

\* What does hold for the refresh token alone: without it the handler issues
\* no upstream call and makes no retry; its answer is a 500 naming the setting.
MissingRefreshTokenNoCall ==
  ~cfgRun.cfg.refreshToken =>
    /\ cfgRun.sent = <<>> /\ cfgRun.waits = <<>>
    /\ (cfgRun.pc = "done") =>
         (cfgRun.status = 500 /\ cfgRun.error = "Missing SPOTIFY_REFRESH_TOKEN")

\* Without a playlist id the handler answered 500 after ten upstream calls and
\* six backoff waits.
MissingPlaylistIdRetried ==
  /\ ~cfgRun.cfg.playlistId /\ cfgRun.pc = "done" /\ cfgRun.status = 500
  /\ Len(cfgRun.sent) = 10 /\ Len(cfgRun.waits) = 6

\* The join calls that have come back, and those of them that succeeded.
JoinsBack == Len(grp.outcomes)
JoinsOk == Len(SelectSeq(grp.outcomes, LAMBDA o : o = "ok"))

(* C30 (as claimed): between every two consecutive join calls of a group
   request the settle delay elapses, whatever the earlier call came to: when a
   join call is outstanding, one settle delay has elapsed for every join call
   that came back before it. *)
C30_SettleAfterEveryJoin ==
  (grp.pc = "join") => (grp.settles = JoinsBack)

(* C30 (amended): the settle delay elapses after every join call that
   succeeded, before the next join call or, after the last one, before the
   volume calls; after a join call that failed the handler goes on at once.
   So when a join call is outstanding, or the joins are over, one settle delay
   has elapsed for every join call that succeeded, and none for the others. *)
C30_SettleAfterSuccess ==
  /\ (grp.pc = "settle") =>
       (grp.outcomes # <<>> /\ grp.outcomes[JoinsBack] = "ok" /\ grp.settles = JoinsOk - 1)
  /\ (grp.pc \in {"join", "volumes", "done"}) => (grp.settles = JoinsOk)
  /\ (grp.pc = "join") => (JoinsOutstanding = 1)

\* A join call is outstanding after one join succeeded and one failed: one
\* settle delay has elapsed, not two.
C30_Witness ==
  /\ grp.pc = "join"
  /\ grp.outcomes = <<"ok", "failed">>
  /\ grp.settles = 1

\* r's add-item call is outstanding.
Adding(r) == req[r].pc \in {"add1", "add2"}

(* C31: the step in which a request's add-item call fails leaves the
   recent-add cache, every field of the membership cache, the refresh in
   flight and its body as they were, and the request responds with an error;
   and the recent-add cache gains or renews an entry only in a step in which
   an add-item call for that identity succeeds. *)
C31_FailedAddChangesNothing ==
  /\ [][\A r \in Requests :
          (Adding(r) /\ req'[r].pc = "done" /\ req'[r].resp # "added")
          => /\ req'[r].resp = "error" /\ req'[r].responses = req[r].responses + 1
             /\ recentAdds' = recentAdds
             /\ playlistCache' = playlistCache
             /\ playlistCacheRefreshPromise' = playlistCacheRefreshPromise
             /\ job' = job
             /\ playlist' = playlist]_vars
  /\ [][\A x \in TrackIds :
          (recentAdds'[x] # recentAdds[x] /\ recentAdds'[x] # 0)
          => \E r \in Requests :
               /\ Adding(r) /\ req[r].trackId = x
               /\ req'[r].resp = "added" /\ recentAdds'[x] = now]_vars

\* A request's add-item call failed after the membership cache was filled:
\* nothing is remembered and the cache does not hold the track.
C31_Witness ==
  \E r \in Requests :
    /\ req[r].pc = "done" /\ req[r].resp = "error" /\ req[r].addCalls >= 1
    /\ recentAdds[req[r].trackId] = 0
    /\ playlistCache.updatedAt > 0
    /\ req[r].trackId \notin playlistCache.ids
    /\ playlistCacheRefreshPromise = NoJob

\* r's revalidation fetch comes back in this step with the marker and the
\* total the cache holds.
RevalidatesSame(r) ==
  /\ req[r].pc = "revalidate" /\ req'[r].pc \notin {"revalidate", "directMeta"}
  /\ fetchPlaylistMeta.snapshotId = playlistCache.snapshotId
  /\ fetchPlaylistMeta.total = playlistCache.total

(* C32: when a revalidation finds the remote marker and total equal to the
   cached ones, no refresh is started or awaited and no page is requested,
   the cached id set, marker, total and scope key stay as they are, the
   cache's timestamp becomes the current time, and the check answers from the
   cached set in the same step. *)
C32_SameMetaTouchesTimestamp ==
  [][\A r \in Requests :
       RevalidatesSame(r)
       => /\ playlistCache' = [playlistCache EXCEPT !.updatedAt = now]
          /\ job' = job
          /\ playlistCacheRefreshPromise' = playlistCacheRefreshPromise
          /\ \/ req'[r].pc = "add1" /\ req[r].trackId \notin playlistCache.ids
             \/ /\ req'[r].resp = "already in playlist"
                /\ req[r].trackId \in playlistCache.ids]_vars

\* A revalidation found nothing changed after the clock had advanced: the
\* timestamp is the new time, the set and the marker are those of the refresh.
C32_Witness ==
  \E r \in Requests :
    /\ req[r].pc = "add1" /\ req[r].reval = "same" /\ req[r].answer = "cached"
    /\ playlistCache.updatedAt = now /\ now > TickMs
    /\ playlistCache.ids # {} /\ playlistCache.snapshotId = snapshot
    /\ \A j \in Requests : job[j].stage = "idle"

\* The cache has been filled for the configured scope.
CachePopulated ==
  playlistCache.updatedAt # 0 /\ playlistCache.scopeKey = dedupeScopeKey(dedupeWindow)

\* The cache as it is, but filled for a scope other than the configured one.
CacheOfOtherScope ==
  [playlistCache EXCEPT
     !.scopeKey = dedupeScopeKey(IF dedupeWindow = WindowAll THEN 1 ELSE WindowAll),
     !.updatedAt = now]

(* C33: in the step in which an add of X succeeds while the cache is filled
   for the configured scope, X is put into the cached set, the cached total
   grows by 1 if the set did not hold X and by 0 if it did, marker and scope
   stay and the timestamp becomes the current time; when the cache was never
   filled it stays as it is, field by field, and so would a cache filled for
   another scope. *)
C33_MarkedInPlace ==
  /\ [][\A r \in Requests :
          (Adding(r) /\ req'[r].resp = "added")
          => LET x == req[r].trackId IN
             IF CachePopulated
             THEN /\ playlistCache'.ids = playlistCache.ids \cup {x}
                  /\ playlistCache'.total =
                       playlistCache.total + (IF x \in playlistCache.ids THEN 0 ELSE 1)
                  /\ playlistCache'.snapshotId = playlistCache.snapshotId
                  /\ playlistCache'.scopeKey = playlistCache.scopeKey
                  /\ playlistCache'.updatedAt = now
             ELSE playlistCache' = playlistCache]_vars
  /\ [](\A x \in TrackIds :
          markPlaylistCacheWithAddedTrack(CacheOfOtherScope, x, dedupeWindow, now)
            = CacheOfOtherScope)

\* Both requests added X: the second add found X in the cached set, which
\* the first had put there, and the total counts it once.
C33_Witness ==
  /\ req["r1"].resp = "added" /\ req["r2"].resp = "added"
  /\ req["r1"].trackId = req["r2"].trackId
  /\ req["r1"].trackId \in playlistCache.ids
  /\ playlistCache.total = 1 /\ Len(playlist) = 2
  /\ playlistCache.snapshotId # snapshot

\* An add succeeded with the cache never filled: it is still empty.
C33_WitnessUnfilled ==
  \E r \in Requests :
    /\ req[r].resp = "added" /\ playlistCache = EmptyCache

\* The refresh j settles in this step.
RefreshSettles(j) == job[j].stage # "idle" /\ job'[j].stage = "idle"

(* C34: the step in which an add succeeds sends the added:true response and
   ends the handler while the refresh it called for has only been started, so
   nothing the refresh does or fails to do is awaited; and the step in which
   a refresh settles, by success or by failure, changes neither the response
   of a request that has responded nor the recent-add cache. *)
C34_ResponseBeforeRefresh ==
  /\ [][\A r \in Requests :
          Adding(r) => req'[r].pc \in {req[r].pc, "add2", "done"}]_vars
  /\ [][\A r \in Requests :
          (Adding(r) /\ req'[r].rememberedAt # req[r].rememberedAt)
          => /\ req'[r].pc = "done" /\ req'[r].resp = "added"
             /\ req'[r].responses = req[r].responses + 1
             /\ playlistCacheRefreshPromise' # NoJob
             /\ job'[playlistCacheRefreshPromise'].stage # "idle"]_vars
  /\ [][\A j \in Requests :
          RefreshSettles(j)
          => /\ recentAdds' = recentAdds
             /\ \A r \in Requests : req[r].pc = "done" => req'[r] = req[r]]_vars

\* A request has answered added:true and the refresh it started is still in
\* its first call.
C34_Witness ==
  \E r \in Requests :
    /\ req[r].pc = "done" /\ req[r].resp = "added"
    /\ playlistCacheRefreshPromise = r /\ job[r].stage = "meta" /\ job[r].caught

\* The refresh started by an add has failed: the response and the recent-add
\* entry stand, the cache is the marked one with the old marker.
C34_WitnessRefreshFailed ==
  \E r \in Requests :
    /\ req[r].resp = "added" /\ recentAdds[req[r].trackId] = req[r].rememberedAt
    /\ playlistCacheRefreshPromise = NoJob /\ job[r].stage = "idle"
    /\ CachePopulated /\ playlistCache.snapshotId # snapshot
    /\ \A q \in Requests : req[q].pc \in {"idle", "done"}

(* ------------------------------------------------------------------ *)

ScanOver == scan.pc \in {"done", "failed", "found"}

\* C35: every playlist scan terminates when its page requests are answered:
\* a page that returns items moves the requested offset forward by their
\* number (at least 1, at most the limit asked for), the scan requests the
\* next page only while the offset is below the declared total and stops when
\* the offset reaches it, and a page that moves the offset nowhere ends the
\* scan.
C35_ScanTerminates ==
  /\ [][scan.pc = "page" /\ scan'.offset # scan.offset
         => /\ scan'.offset > scan.offset
            /\ scan'.offset - scan.offset <= scan.limit
            /\ scan'.pc = IF scan'.offset >= scanEnd(scan.kind, scan.total)
                          THEN "done" ELSE "page"]_vars
  /\ [][scan.pc = "page" /\ scan'.offset = scan.offset => ScanOver']_vars
  /\ [][ScanOver => scan' = scan]_vars
  /\ <>ScanOver

\* C35 happened: a scan of the whole of a 251-item playlist, which takes at
\* least three pages, stopped at the declared total.
C35_Witness ==
  /\ scan.window = WindowAll
  /\ scan.total = DEFAULT_DE_DUPE_WINDOW + 1
  /\ scan.first = 0
  /\ scan.pc = "done"
  /\ scan.offset = scan.total

\* C35 happened on the defensive stop: pages were read, then one came back
\* empty below the declared total.
C35_WitnessEmptyPage ==
  /\ scan.pc = "done"
  /\ scan.first # NoOffset
  /\ scan.offset > scan.first + PAGE_LIMIT
  /\ scan.offset < scan.total

(* ------------------------------------------------------------------ *)

\* r's handler calls addTrackToPlaylist in this step: its first add-item call
\* goes out (the wrapper's one retry after a 401 is a later step of that call).
IssuesAdd(r) == req[r].addCalls = 0 /\ req'[r].addCalls > 0

\* The direct scan of r has, with this step, nothing left to read, and what it
\* read last does not hold r's track.
DirectScanExhausted(r) ==
  \/ /\ req[r].pc = "directMeta"
     /\ ~(directStartOffset(dedupeWindow, Len(playlist)) < Len(playlist))
  \/ /\ req[r].pc = "directScan"
     /\ LET items == PageItems(req[r].dOffset, pageLimit(req[r].dEnd, req[r].dOffset)) IN
        /\ req[r].trackId \notin Range(items)
        /\ Len(items) = 0 \/ ~(req[r].dOffset + Len(items) < req[r].dEnd)

\* C36: a request issues its add-item call only in the step in which its
\* membership check answers "not in the playlist": from a cached set that does
\* not hold its track, or from a direct scan that has read its last page
\* without meeting the track. A request whose check is under way has issued
\* none, and a request whose check failed (the cached path and then the direct
\* scan) has answered with an error and issues none, then or later.
C36_NoAddOnFailedCheck ==
  /\ [][\A r \in Requests :
          IssuesAdd(r)
          => /\ req'[r].addCalls = 1
             /\ req'[r].pc = "add1" /\ req'[r].resp = "none"
             /\ \/ /\ InCachedPath(r)
                   /\ req'[r].answer \in {"cached", "refreshed"}
                   /\ req[r].trackId \notin playlistCache'.ids
                \/ /\ InDirectScan(r)
                   /\ req'[r].answer = "direct"
                   /\ DirectScanExhausted(r)]_vars
  /\ [][\A r \in Requests :
          (InDirectScan(r) /\ ~InDirectScan(r)' /\ ~IssuesAdd(r))
          => /\ req'[r].pc = "done"
             /\ req'[r].resp \in {"error", "already in playlist"}
             /\ req'[r].addCalls = 0]_vars
  /\ [][\A r \in Requests :
          req[r].pc = "done" => req'[r].addCalls = req[r].addCalls]_vars
  /\ \A r \in Requests : (InCachedPath(r) \/ InDirectScan(r)) => req[r].addCalls = 0

\* C36 happened: the refresh a request's check awaited failed, its direct scan
\* failed too, and it answered 500 with no add-item call, for a track the
\* playlist does not hold.
C36_Witness ==
  \E r \in Requests :
    /\ req[r].resp = "error"
    /\ req[r].trackId # NoTrack
    /\ req[r].trackId \notin Range(playlist)
    /\ req[r].addCalls = 0
    /\ playlistCache.updatedAt = 0

(* ------------------------------------------------------------------ *)

\* The refresh body j settles with success in this step: the cache is replaced.
RefreshReplaces(j) ==
  /\ job[j].stage # "idle"
  /\ job'[j].stage = "idle"
  /\ playlistCache' # playlistCache

\* An identity leaves the cached set only in a step in which a refresh settles
\* with success: one that was in flight, or one that a revalidation starts
\* with its own meta and that has nothing to scan.
C37_RemovedOnlyByRefresh ==
  [][\/ playlistCache.ids \subseteq playlistCache'.ids
     \/ \E j \in Requests : RefreshReplaces(j)
     \/ \E r \in Requests : req[r].pc = "revalidate" /\ req'[r].pc # "revalidate"]_vars

\* C37: an identity that a successful add has put into the cached set stays
\* in it until a refresh replaces the set, and a refresh whose scan was under
\* way when the identity was put in leaves it in the set when it completes.
C37_MarkedSurvivesRefreshInFlight ==
  /\ C37_RemovedOnlyByRefresh
  /\ [][\A j \in Requests :
          RefreshReplaces(j)
          => (job[j].marked \cap playlistCache.ids) \subseteq playlistCache'.ids]_vars

\* A successful add put its identity into the cached set while a refresh was
\* scanning.
C37_Witness ==
  \E j \in Requests :
    /\ job[j].stage = "scan"
    /\ job[j].marked # {}
    /\ job[j].marked \subseteq playlistCache.ids

(* ------------------------------------------------------------------ *)

\* What the refresh body j writes if the answer it is waiting for completes
\* its scan: the whole scan under the meta it was started with or fetched.
CompletedScanOf(j) ==
  IF job[j].stage = "meta"
  THEN RefreshedCache({}, fetchPlaylistMeta, dedupeWindow, now)
  ELSE LET end == Max(0, job[j].meta.total)
           items == PageItems(job[j].offset, pageLimit(end, job[j].offset))
       IN RefreshedCache(job[j].ids \cup Range(items), job[j].meta, dedupeWindow, now)

\* The answer j is waiting for, if it comes, leaves nothing more to scan.
ScanCompletes(j) ==
  IF job[j].stage = "meta"
  THEN ScanIsEmpty(fetchPlaylistMeta, dedupeWindow)
  ELSE LET end == Max(0, job[j].meta.total)
           got == Len(PageItems(job[j].offset, pageLimit(end, job[j].offset)))
       IN got = 0 \/ ~(job[j].offset + got < end)

\* r's revalidation answers in this step.
Revalidated(r) == req[r].pc = "revalidate" /\ req'[r].pc # "revalidate"

\* C38: a refresh in flight writes the cache only in the step in which it
\* settles, and then either all of it (id set of the completed scan, marker
\* and total of its meta, scope key, timestamp) or, having failed at its meta
\* fetch or on a page, nothing. The marker and the scope key change, and the
\* id set loses members, only in such a replacement (by a refresh in flight
\* or by one a revalidation completes on the spot), which sets all five fields;
\* every other write adds one identity in place or touches the timestamp.
C38_ReplacedTogetherOrNotAtAll ==
  /\ [][\A j \in Requests :
          RefreshSettles(j)
          => \/ playlistCache' = playlistCache
             \/ ScanCompletes(j) /\ playlistCache' = CompletedScanOf(j)]_vars
  /\ [][(\/ playlistCache'.snapshotId # playlistCache.snapshotId
          \/ playlistCache'.scopeKey # playlistCache.scopeKey
          \/ ~(playlistCache.ids \subseteq playlistCache'.ids))
         => /\ \/ \E j \in Requests : RefreshSettles(j) /\ playlistCache' = CompletedScanOf(j)
               \/ \E r \in Requests :
                    /\ Revalidated(r)
                    /\ playlistCache' = RefreshedCache({}, fetchPlaylistMeta, dedupeWindow, now)
            /\ playlistCache'.scopeKey = dedupeScopeKey(dedupeWindow)
            /\ playlistCache'.updatedAt = now]_vars
  /\ [][(\A j \in Requests : ~RefreshSettles(j)) /\ (\A r \in Requests : ~Revalidated(r))
         => /\ playlistCache'.snapshotId = playlistCache.snapshotId
            /\ playlistCache'.scopeKey = playlistCache.scopeKey
            /\ playlistCache.ids \subseteq playlistCache'.ids
            /\ Cardinality(playlistCache'.ids) <= Cardinality(playlistCache.ids) + 1]_vars

\* C38 happened: a revalidation saw the playlist changed and started a refresh,
\* the refresh failed, and the populated cache still has the set, the marker
\* and the total of before the change.
C38_Witness ==
  \E r \in Requests :
    /\ req[r].pc = "directMeta"
    /\ req[r].reval = "changed"
    /\ playlistCache.updatedAt # 0
    /\ playlistCache.ids # {}
    /\ playlistCache.snapshotId # snapshot
    /\ playlistCache.total # Len(playlist)

\* C38 happened on the other side: a refresh that completed its scan replaced
\* a populated cache while a request's check was under way.
C38_WitnessReplaced ==
  \E r \in Requests :
    /\ req[r].reval = "replaced"
    /\ playlistCache.snapshotId = snapshot
    /\ playlistCache.total = Len(playlist)

(* ------------------------------------------------------------------ *)

\* C39: the step in which the refresh in flight settles, with success or with
\* failure, clears the refresh-in-progress marker; the marker never names a
\* refresh that has settled and no check awaits one; and a refresh call made
\* while the marker is clear, and left waiting or running in the background,
\* is a refresh of its own: its meta fetch, or its scan when it was handed the
\* meta, with nothing read yet.
C39_MarkerClearedOnSettle ==
  /\ [][\A j \in Requests :
          RefreshSettles(j)
          => /\ playlistCacheRefreshPromise = j
             /\ playlistCacheRefreshPromise' = NoJob]_vars
  /\ [](/\ playlistCacheRefreshPromise # NoJob
           => job[playlistCacheRefreshPromise].stage # "idle"
        /\ \A r \in Requests :
             req[r].pc = "awaitRefresh" => job[req[r].awaiting].stage # "idle")
  /\ [][\A r \in Requests :
          (CallsRefresh(r) /\ playlistCacheRefreshPromise = NoJob)
          => /\ playlistCacheRefreshPromise' = r
             /\ job'[r].stage \in {"meta", "scan"}
             /\ job'[r].ids = {}
             /\ job[r].stage = "idle"]_vars

\* C39 happened: the refresh a check awaited failed (the check is in its
\* direct scan), and a later refresh call has started a refresh of its own.
C39_Witness ==
  \E r, q \in Requests :
    /\ r # q
    /\ InDirectScan(r)
    /\ req[r].log = <<"recent:no">>
    /\ playlistCache.updatedAt = 0
    /\ playlistCacheRefreshPromise = q
    /\ Waits(q, q)
    /\ job[q].stage \in {"meta", "scan"}

\* C39 happened after a success: the refresh that filled the cache has
\* settled, an add followed, and its background refresh is a new one.
C39_WitnessAfterSuccess ==
  \E r \in Requests :
    /\ req[r].resp = "added"
    /\ playlistCacheRefreshPromise = r
    /\ job[r].stage = "scan"
    /\ job[r].meta.snapshotId = snapshot
    /\ playlistCache.updatedAt # 0

(* ------------------------------------------------------------------ *)

\* The group handler has answered ok:true.
GroupAnsweredOk == grp.pc = "done" /\ grp.res.ok

FailedRooms == {grp.res.failed[i].room : i \in DOMAIN grp.res.failed}

\* The lists of the response that name the room.
ListsNaming(room) ==
  {l \in {"joined", "failed", "skipped_already_grouped"} :
     \/ l = "joined" /\ room \in Range(grp.res.joined)
     \/ l = "failed" /\ room \in FailedRooms
     \/ l = "skipped_already_grouped" /\ room \in Range(grp.res.skipped_already_grouped)}

\* joined and failed together are the rooms a join call was issued for.
JoinedAndFailedAreTheCalls ==
  Range(grp.res.joined) \cup FailedRooms = Range(JoinsSent)

\* C40: in every ok:true group response each requested room is named by
\* exactly one of joined, failed and skipped_already_grouped, and joined
\* together with failed is the set of rooms a join call was issued for.
C40_EachRoomInOneList ==
  GroupAnsweredOk
  => /\ \A room \in Range(grp.rooms) : Cardinality(ListsNaming(room)) = 1
     /\ JoinedAndFailedAreTheCalls

\* The requested rooms are named once each.
NamedOnce == \A i, k \in DOMAIN grp.rooms : i # k => grp.rooms[i] # grp.rooms[k]

\* What holds of every ok:true response: every requested room is named by at
\* least one list, by exactly one when the request names each room once, a
\* skipped room by no other list, and joined with failed are the calls issued.
C40_RequestsNamingRoomsOnce ==
  GroupAnsweredOk
  => /\ \A room \in Range(grp.rooms) :
          /\ Cardinality(ListsNaming(room)) >= 1
          /\ NamedOnce => Cardinality(ListsNaming(room)) = 1
          /\ room \in Range(grp.res.skipped_already_grouped)
               => ListsNaming(room) = {"skipped_already_grouped"}
     /\ JoinedAndFailedAreTheCalls

\* A request naming three rooms once each was answered with one joined, one
\* failed and one skipped.
C40_WitnessNamedOnce ==
  /\ GroupAnsweredOk
  /\ NamedOnce
  /\ Len(grp.rooms) = 3
  /\ Len(grp.res.joined) = 1
  /\ Len(grp.res.failed) = 1
  /\ Len(grp.res.skipped_already_grouped) = 1

====
